---------------------------- MODULE Spec2Model ----------------------------
(***************************************************************************)
(* A model of the telemetry core of FullStack_SNMP:                        *)
(*   - EnhancedEngineSNMPAgent (snmp_iot_monitor/backend/                  *)
(*     enhanced_snmp_agent.py): the per-device catalog, the value          *)
(*     generators, the bounded message log, handle_snmp_request and        *)
(*     simulate_snmp_queries;                                              *)
(*   - EngineData / SNMPManager (snmp_iot_monitor/backend/snmp_manager.py):*)
(*     the cache, the real-query-else-synthesize fallback, the polling     *)
(*     threads and the read operations.                                    *)
(*                                                                         *)
(* Numbers with decimals are kept as scaled integers: temperatures in      *)
(* tenths of a degree (80.0 is 800), currents in hundredths of an ampere.  *)
(* Python's None is the empty tuple <<>>, a present value v is <<v>>.      *)
(***************************************************************************)
EXTENDS Integers, Sequences, FiniteSets, TLC

VARIABLES
    \* ---- enhanced_snmp_agent.py ----
    message_log,    \* engine id -> sequence of log records (agent.message_log)
    cycle_time,     \* engine id -> agent.cycle_time
    AGENT_DATA,     \* engine id -> the shared dictionary entry
    catalog,        \* engine id -> agent.mib_definitions (OID -> entry)
    clock,          \* the wall clock: a logical time every reading of which ticks
    appended,       \* history: engine id -> every record ever appended, in order
    last_call,      \* history: the last completed handle_snmp_request or getter call
    sim,            \* position of the writer inside simulate_snmp_queries
    budget,         \* history: calls, cycles and reads made so far
    \* ---- snmp_manager.py ----
    PYSNMP_AVAILABLE, \* whether the import of pysnmp succeeded
    engines,        \* engine id -> EngineData fields (SNMPManager.engines)
    running,        \* SNMPManager.running
    threads,        \* thread id -> position of a caller of poll_all_engines
    now,            \* logical time of datetime.now() in the manager
    reader,         \* history: the last snapshot a reader took
    health_done,    \* history: engines update_health_status has completed on
    last_update,    \* history: engine id -> what its last completed update did
    summary,        \* history: what the last get_engines_summary() call returned
    scan,           \* position of a caller inside get_engines_summary()
    used            \* history: cycles, agent answers, reads made so far

agentVars == <<message_log, cycle_time, AGENT_DATA, catalog, clock, appended, last_call,
              sim, budget>>

mgrVars == <<PYSNMP_AVAILABLE, engines, running, threads, now, reader, health_done,
            last_update, summary, scan, used>>

vars == <<message_log, cycle_time, AGENT_DATA, catalog, clock, appended, last_call, sim, budget,
          PYSNMP_AVAILABLE, engines, running, threads, now, reader, health_done,
          last_update, summary, scan, used>>

-----------------------------------------------------------------------------
(* Bounds of the model *)

\* free handle_snmp_request calls explored by SpecAgent
MaxCalls == 2
\* simulate_snmp_queries cycles run by the single writer of SpecLog
MaxCycles == 9
\* direct unknown-OID requests the single writer of SpecLog makes between cycles
MaxDirect == 1
\* poll_all_engines cycles of the single caller of Spec
MaxPolls == 2
\* queries an agent answers (instead of failing) in a run of Spec
MaxAnswers == 2
\* cycles and answered queries while a reader runs beside the caller (SpecRead)
MaxReadPolls == 1
MaxReadAnswers == 0
\* snapshots the reader of SpecRead takes
MaxReads == 1
\* polling_loop threads, the cycles they begin and the answered queries (SpecThreads)
MaxThreads == 2
MaxThreadPolls == 2
MaxThreadAnswers == 0
\* polling_loop threads and cycles begun in the fair runs (SpecLoop)
MaxLoops == 2
MaxLoopPolls == 2
\* answered queries of the runs of one polling_loop whose replies may not parse
\* (SpecBackoff)
MaxBackoffAnswers == 1
\* clock value from which the two writers of SpecSimulate begin no request
MaxSimClock == 19
\* largest elapsed time, in seconds, a getter of SpecGetters is called at
MaxElapsed == 3
\* steps between the least and the greatest value of a sine term or a draw
SampleSteps == 2
\* steps between the ends of the clamp ranges of rpm and current in SpecPower
MaxPowerSteps == 3
\* poll_all_engines calls and agent answers of SpecStamp
MaxStampPolls == 2
MaxStampAnswers == 1
\* direct calls of a getter in SpecDevice
MaxGetterCalls == 1
\* a fleet polled while its agents are asked: calls of poll_all_engines,
\* queries an agent answers, calls of handle_snmp_request
MaxFleetPolls == 1
MaxFleetAnswers == 0
MaxFleetCalls == 1
\* a summary taken while the cache is polled: calls of poll_all_engines and
\* queries an agent answers
MaxScanPolls == 1
MaxScanAnswers == 1
\* simulate_snmp_queries cycles of SpecHandlers
MaxHandlerCycles == 1
\* requests the agents' read handlers of SpecHandlers serve
MaxHandlerReads == 1
\* steps of 20 degrees above 70 among the cached temperatures of SpecSummary
MaxSummarySteps == 2
\* whole degrees and hundredths around a threshold explored by SpecHealth
MaxDegrees == 130
MaxOffset == 5

-----------------------------------------------------------------------------
(* Small helpers *)

None == <<>>

Some(v) == <<v>>

Min(a, b) == IF a < b THEN a ELSE b

Max(a, b) == IF a > b THEN a ELSE b

\* max(lo, min(hi, x))
Clamp(lo, hi, x) == Max(lo, Min(hi, x))

\* n / d rounded to the nearest integer (d > 0)
RoundDiv(n, d) == (2 * n + d) \div (2 * d)

\* round(n / d, 0) of Python for integers n >= 0 and d in 1..3: the quotient
\* is either far from a half or exactly a half, and a half goes to the even
\* neighbour
RoundHalfEven(n, d) ==
    LET q == n \div d
        r == n % d
    IN  IF 2 * r < d THEN q
        ELSE IF 2 * r > d THEN q + 1
        ELSE IF q % 2 = 0 THEN q ELSE q + 1

\* floor(a * c / d) for a, c >= 0 and d a multiple of 1000, computed without
\* leaving the 32-bit integers
MulDiv(a, c, d) ==
    ((a \div 1000) * c + ((a % 1000) * c) \div 1000) \div (d \div 1000)

-----------------------------------------------------------------------------
(* The fleet: engines_config of create_enhanced_agents and SNMPManager.engines *)

EngineIds == {"Engine-1", "Engine-2", "Engine-3"}

EngineOrder == <<"Engine-1", "Engine-2", "Engine-3">>

engines_config ==
    [e \in EngineIds |->
        CASE e = "Engine-1" -> [port |-> 1611, base_temp |-> 45, base_rpm |-> 1800,
                                base_current |-> 1250, base_power |-> 1500]
          [] e = "Engine-2" -> [port |-> 1612, base_temp |-> 50, base_rpm |-> 2000,
                                base_current |-> 1500, base_power |-> 1800]
          [] e = "Engine-3" -> [port |-> 1613, base_temp |-> 40, base_rpm |-> 1600,
                                base_current |-> 1000, base_power |-> 1200]]

-----------------------------------------------------------------------------
(* The catalog: EnhancedEngineSNMPAgent.mib_definitions *)

OidTemperature == "1.3.6.1.4.1.9999.1.1.1.0"
OidRpm == "1.3.6.1.4.1.9999.1.1.2.0"
OidCurrent == "1.3.6.1.4.1.9999.1.1.3.0"
OidPower == "1.3.6.1.4.1.9999.1.1.4.0"
OidStatus == "1.3.6.1.4.1.9999.1.1.5.0"
OidUptime == "1.3.6.1.4.1.9999.1.1.6.0"

\* the catalog's keys in insertion order (the order a dict iterates in)
CatalogOrder == <<OidTemperature, OidRpm, OidCurrent, OidPower, OidStatus, OidUptime>>

CatalogOids == {CatalogOrder[i] : i \in 1..Len(CatalogOrder)}

\* an OID no catalog holds
OidUnknown == "1.3.6.1.4.1.9999.1.1.7.0"

OidDomain == CatalogOids \cup {OidUnknown}

mib_definitions ==
    [o \in CatalogOids |->
        CASE o = OidTemperature -> [name |-> "engineTemperature", type |-> "Gauge32"]
          [] o = OidRpm         -> [name |-> "engineRPM", type |-> "Gauge32"]
          [] o = OidCurrent     -> [name |-> "engineCurrent", type |-> "Gauge32"]
          [] o = OidPower       -> [name |-> "enginePowerOutput", type |-> "Gauge32"]
          [] o = OidStatus      -> [name |-> "engineStatus", type |-> "Integer32"]
          [] o = OidUptime      -> [name |-> "engineUptime", type |-> "TimeTicks"]]

max_log_entries == 100


-----------------------------------------------------------------------------
(* The value generators: get_temperature .. get_uptime                      *)
(*                                                                         *)
(* A generator reads the time and draws a random number.  s, s2 stand for  *)
(* the value of a math.sin term and u for the position of a random.uniform *)
(* draw inside its interval, all three in thousandths (-1000 .. 1000).     *)

\* values a sine term and a uniform draw take in the model (thousandths)
SinSamples == {-1000, 1000}

NoiseSamples == {-1000, 1000}

\* a run without load variation and without noise
Nominal == {0}

\* round(max(20, min(120, base_temp + 5 sin + uniform(-2, 2) + 0.3 sin)), 1), in
\* tenths, of an agent constructed with base_temp
get_temperature_of(base_temp, s, s2, u) ==
    RoundDiv(Clamp(200 * 1000, 1200 * 1000,
                   base_temp * 10000 + 50 * s + 20 * u + 3 * s2), 1000)

get_temperature(e, s, s2, u) ==
    get_temperature_of(engines_config[e].base_temp, s, s2, u)

\* a plausible slip: the result is not clamped
get_rpm_of_unclamped(base_rpm, s, u) ==
    (base_rpm * 1000 + 200 * s + 50 * u) \div 1000

\* int(max(500, min(3500, base_rpm + 200 sin + uniform(-50, 50))))
get_rpm_of(base_rpm, s, u) ==
    Clamp(500 * 1000, 3500 * 1000, base_rpm * 1000 + 200 * s + 50 * u) \div 1000

get_rpm(e, s, u) == get_rpm_of(engines_config[e].base_rpm, s, u)

\* round(max(0, min(30, base_current + 0.5 sin * 5 + uniform(-1, 1))), 2), in
\* hundredths, base_current in hundredths too
get_current_of(base_current, s, u) ==
    RoundDiv(Clamp(0, 3000 * 1000, base_current * 1000 + 250 * s + 100 * u), 1000)

get_current(e, s, u) == get_current_of(engines_config[e].base_current, s, u)

\* The two quotients and the two products of get_power are binary
\* floating-point operations, each rounded.  Where the exact product is not a
\* whole number the rounding error is far smaller than the distance to one, and
\* int() gives the floor of the exact product.  Where it is a whole number k the
\* computed product is k or lies just below it, and int() then gives k - 1.
\* These are the operands <<base_power, rpm, current>>, among all those the
\* specifications of this module call get_power with, at which the expression
\* of get_power evaluates just below k (current in hundredths).
ShortOperands ==
    {<<1200, 1800, 1150>>, <<1500, 1600, 1150>>, <<1500, 1600, 1400>>,
     <<1500, 1800, 1500>>, <<1500, 2000, 1054>>, <<1500, 2000, 1400>>,
     <<1800, 1800, 1500>>, <<1800, 1800, 1650>>, <<1800, 1950, 1400>>,
     <<1800, 2000, 1250>>, <<1800, 2000, 1400>>, <<1800, 2000, 1650>>,
     <<1800, 2000, 1750>>, <<1800, 2150, 1400>>, <<1800, 2200, 1150>>,
     <<1800, 2200, 1500>>, <<1800, 2200, 1650>>, <<1800, 2250, 1400>>}

\* int(max(0, min(3000, base_power * ((rpm / 3000) * (current / 20))))), rpm
\* and current being the results of get_rpm() and get_current()
get_power_of(base_power, rpm, current) ==
    LET exact == MulDiv(base_power * rpm, current, 3000 * 20 * 100)
    IN  Clamp(0, 3000,
              IF <<base_power, rpm, current>> \in ShortOperands THEN exact - 1 ELSE exact)

get_power(e, rpm, current) == get_power_of(engines_config[e].base_power, rpm, current)

get_status == 1

start_time == [e \in EngineIds |-> 0]

\* int(time.time() - start_time)
get_uptime(e, t) == t - start_time[e]

\* the values mib_definitions[oid]['getter']() can return at time t, the sine
\* terms ranging over S and the uniform draws over U
GetterValues(e, oid, t, S, U) ==
    CASE oid = OidTemperature ->
            {get_temperature(e, s, s2, u) : s \in S, s2 \in S, u \in U}
      [] oid = OidRpm -> {get_rpm(e, s, u) : s \in S, u \in U}
      [] oid = OidCurrent -> {get_current(e, s, u) : s \in S, u \in U}
      [] oid = OidPower ->
            {get_power(e, r, c) : r \in {get_rpm(e, s, u) : s \in S, u \in U},
                                  c \in {get_current(e, s, u) : s \in S, u \in U}}
      [] oid = OidStatus -> {get_status}
      [] oid = OidUptime -> {get_uptime(e, t)}

\* get_temperature, get_rpm, get_current (and get_power through them) assign
\* self.cycle_time = time.time() - self.start_time
GetterCycleTime(e, oid, t, old) ==
    IF oid \in {OidTemperature, OidRpm, OidCurrent, OidPower}
    THEN t - start_time[e]
    ELSE old

-----------------------------------------------------------------------------
(* The message log: log_snmp_message *)

\* the record log_snmp_message builds (community, data_type and access are,
\* like mib_name, functions of the OID and are left out)
log_entry(e, message_type, oid, value, error, t) ==
    [timestamp |-> t,
     engine_id |-> e,
     message_type |-> message_type,
     oid |-> oid,
     mib_name |-> IF oid \in CatalogOids THEN mib_definitions[oid].name ELSE "Unknown",
     value |-> value,
     error |-> error,
     port |-> engines_config[e].port]

\* a plausible slip: the newest record is dropped instead of the oldest
log_snmp_message_newest(log, entry) ==
    LET grown == Append(log, entry)
    IN  IF Len(grown) > max_log_entries THEN SubSeq(grown, 1, Len(grown) - 1) ELSE grown

\* self.message_log.append(log_entry); if len > max_log_entries: pop(0)
log_snmp_message(log, entry) ==
    LET grown == Append(log, entry)
    IN  IF Len(grown) > max_log_entries THEN Tail(grown) ELSE grown

-----------------------------------------------------------------------------
(* handle_snmp_request *)

\* a plausible slip: the response is logged with a second evaluation of the getter
handle_snmp_request_twice(e, oid, value, t) ==
    IF oid \in CatalogOids
    THEN [records |-> <<log_entry(e, "GET_REQUEST", oid, None, None, t + 1),
                        log_entry(e, "GET_RESPONSE", oid, Some(value + 1), None, t + 2)>>,
          ret |-> Some(value),
          raised |-> FALSE]
    ELSE [records |-> <<log_entry(e, "ERROR", oid, None, <<"OID", oid, "not found">>, t)>>,
          ret |-> None,
          raised |-> FALSE]

\* a plausible slip: an unknown OID is looked up in the catalog without the guard
handle_snmp_request_unguarded(e, oid, value, t) ==
    IF oid \in CatalogOids
    THEN [records |-> <<log_entry(e, "GET_REQUEST", oid, None, None, t + 1),
                        log_entry(e, "GET_RESPONSE", oid, Some(value), None, t + 2)>>,
          ret |-> Some(value),
          raised |-> FALSE]
    ELSE [records |-> <<log_entry(e, "GET_REQUEST", oid, None, None, t),
                        log_entry(e, "ERROR", oid, None, <<"KeyError", oid>>, t + 1)>>,
          ret |-> None,
          raised |-> FALSE]

\* a plausible slip: the response of a known OID is handed to log_snmp_message
\* a second time
handle_snmp_request_relogged(e, oid, value, t) ==
    IF oid \in CatalogOids
    THEN [records |-> <<log_entry(e, "GET_REQUEST", oid, None, None, t + 1),
                        log_entry(e, "GET_RESPONSE", oid, Some(value), None, t + 2),
                        log_entry(e, "GET_RESPONSE", oid, Some(value), None, t + 2)>>,
          ret |-> Some(value),
          raised |-> FALSE]
    ELSE [records |-> <<log_entry(e, "ERROR", oid, None, <<"OID", oid, "not found">>, t)>>,
          ret |-> None,
          raised |-> FALSE]

\* The records one call hands to log_snmp_message, in order, and what it
\* returns; value is the getter's result, read at time t.  The try block
\* holds no statement that raises on these inputs, so the except branch
\* (one ERROR record, return None) stays unused and the call never raises.
handle_snmp_request(e, oid, value, t) ==
    IF oid \in CatalogOids
    THEN [records |-> <<log_entry(e, "GET_REQUEST", oid, None, None, t + 1),
                        log_entry(e, "GET_RESPONSE", oid, Some(value), None, t + 2)>>,
          ret |-> Some(value),
          raised |-> FALSE]
    ELSE [records |-> <<log_entry(e, "ERROR", oid, None, <<"OID", oid, "not found">>, t)>>,
          ret |-> None,
          raised |-> FALSE]

\* a plausible slip: setdefault instead of get, which stores the default
mib_get_setdefault(mib, oid) ==
    [info |-> IF oid \in DOMAIN mib THEN Some(mib[oid]) ELSE None,
     mib |-> IF oid \in DOMAIN mib THEN mib
             ELSE [o \in DOMAIN mib \cup {oid} |->
                      IF o = oid THEN [name |-> "Unknown", type |-> "Unknown"]
                      ELSE mib[o]]]

\* self.mib_definitions.get(oid, {}) in log_snmp_message: the entry found, or
\* none for the empty default, and the dictionary as the lookup leaves it
mib_get(mib, oid) ==
    [info |-> IF oid \in DOMAIN mib THEN Some(mib[oid]) ELSE None, mib |-> mib]

\* a plausible slip: message_log made a class attribute, one list that every
\* agent appends to
log_store_shared(logs, e, log) == [d \in DOMAIN logs |-> log]

\* self.message_log of agent e after the call: the list is made in __init__,
\* one for each agent
log_store(logs, e, log) == [logs EXCEPT ![e] = log]

\* self.message_log.append(log_entry), the first statement of the two
log_append(log, entry) == Append(log, entry)

\* if len(self.message_log) > self.max_log_entries: self.message_log.pop(0)
log_evict(log) == IF Len(log) > max_log_entries THEN Tail(log) ELSE log

\* log_snmp_message applied to each record of recs in turn
RECURSIVE LogAll(_, _)
LogAll(log, recs) ==
    IF recs = <<>> THEN log
    ELSE LogAll(log_snmp_message(log, Head(recs)), Tail(recs))

-----------------------------------------------------------------------------
(* AGENT_DATA: create_enhanced_agents and the update in simulate_snmp_queries *)

\* the fields both places compute, each from its own call of a getter
agent_data_values(e, t, S, U) ==
    {[temperature |-> temp, rpm |-> rpm, current |-> cur, power |-> pow,
      status |-> get_status, uptime |-> get_uptime(e, t), last_updated |-> t,
      health_status |-> IF get_status = 1 THEN "healthy" ELSE "stopped"] :
        temp \in GetterValues(e, OidTemperature, t, S, U),
        rpm \in GetterValues(e, OidRpm, t, S, U),
        cur \in GetterValues(e, OidCurrent, t, S, U),
        pow \in GetterValues(e, OidPower, t, S, U)}

\* AGENT_DATA[engine_id].update({...}): engine_id and port keep their values
agent_data_update(entry, values) ==
    [entry EXCEPT !.temperature = values.temperature, !.rpm = values.rpm,
                  !.current = values.current, !.power = values.power,
                  !.status = values.status, !.uptime = values.uptime,
                  !.last_updated = values.last_updated,
                  !.health_status = values.health_status]

\* the entry create_enhanced_agents stores for engine e
agent_data_created(e, values) ==
    [engine_id |-> e, temperature |-> values.temperature, rpm |-> values.rpm,
     current |-> values.current, power |-> values.power, status |-> values.status,
     uptime |-> values.uptime, last_updated |-> values.last_updated,
     port |-> engines_config[e].port, health_status |-> values.health_status]

-----------------------------------------------------------------------------
(* The agents' state after create_enhanced_agents() *)

\* the threads that run simulate_snmp_queries: continuous_simulation (1) and
\* the handler of GET /api/snmp/simulate (2)
Writers == {1, 2}

SimIdle == [phase |-> "idle", i |-> 0, j |-> 0, pending |-> <<>>, ret |-> None]

\* no simulate_snmp_queries cycle is under way
SimAllIdle == \A w \in Writers : sim[w].phase = "idle"

AgentInit ==
    /\ message_log = [e \in EngineIds |-> <<>>]
    /\ appended = [e \in EngineIds |-> <<>>]
    /\ cycle_time = [e \in EngineIds |-> 0]
    /\ clock = 1
    /\ AGENT_DATA \in [EngineIds -> UNION {{agent_data_created(e, v) :
                            v \in agent_data_values(e, 0, Nominal, Nominal)} : e \in EngineIds}]
    /\ \A e \in EngineIds : AGENT_DATA[e].engine_id = e
    /\ last_call = None
    /\ sim = [w \in Writers |-> SimIdle]
    /\ catalog = [e \in EngineIds |-> mib_definitions]
    /\ budget = [calls |-> 0, cycles |-> 0, direct |-> 0, reads |-> 0, getters |-> 0]

-----------------------------------------------------------------------------
(* The getters of a single EnhancedEngineSNMPAgent *)

\* the base values create_enhanced_agents gives engine e
DeviceOf(e) ==
    [base_temp |-> engines_config[e].base_temp, base_rpm |-> engines_config[e].base_rpm,
     base_current |-> engines_config[e].base_current,
     base_power |-> engines_config[e].base_power]

\* the constructor takes any base values: the three configured agents, one
\* with every base at zero and one with every base beyond its clamp range
GetterDevices ==
    {DeviceOf(e) : e \in EngineIds}
    \cup {[base_temp |-> 0, base_rpm |-> 0, base_current |-> 0, base_power |-> 0],
          [base_temp |-> 200, base_rpm |-> 5000, base_current |-> 4000,
           base_power |-> 9000]}

\* values of a sine term and positions of a uniform draw, end to end
RangeSamples == {(2000 * k) \div SampleSteps - 1000 : k \in 0..SampleSteps}

\* one call of a getter: the agent, the catalog entry, the time since
\* start_time, and what the sine terms (s, s2) and the draws (u, u2) come to
\* during the call
GetterCall(device, oid, elapsed, s, s2, u, u2) ==
    [device |-> device, oid |-> oid, elapsed |-> elapsed, s |-> s, s2 |-> s2,
     u |-> u, u2 |-> u2, cycle_time |-> 0, ret |-> None]

GetterCalls ==
    UNION {
        {GetterCall(d, OidTemperature, t, s, s2, u, 0) :
            s \in RangeSamples, s2 \in RangeSamples, u \in RangeSamples}
        \cup {GetterCall(d, oid, t, s, 0, u, 0) :
            oid \in {OidRpm, OidCurrent}, s \in RangeSamples, u \in RangeSamples}
        \cup {GetterCall(d, OidPower, t, x[1], x[2], x[3], x[4]) :
            x \in RangeSamples \X RangeSamples \X RangeSamples \X RangeSamples}
        \cup {GetterCall(d, oid, t, 0, 0, 0, 0) : oid \in {OidStatus, OidUptime}}
        : d \in GetterDevices, t \in 0..MaxElapsed}

\* mib_definitions[oid]['getter']() of the agent of call c
getter_result(c) ==
    CASE c.oid = OidTemperature -> get_temperature_of(c.device.base_temp, c.s, c.s2, c.u)
      [] c.oid = OidRpm -> get_rpm_of(c.device.base_rpm, c.s, c.u)
      [] c.oid = OidCurrent -> get_current_of(c.device.base_current, c.s, c.u)
      [] c.oid = OidPower ->
            get_power_of(c.device.base_power,
                         get_rpm_of(c.device.base_rpm, c.s, c.u),
                         get_current_of(c.device.base_current, c.s2, c.u2))
      [] c.oid = OidStatus -> get_status
      [] c.oid = OidUptime -> c.elapsed

\* the getter of the call is run: it returns its value, and every getter but
\* get_status and get_uptime assigns self.cycle_time
ApplyGetter ==
    /\ last_call # None
    /\ last_call[1].ret = None
    /\ last_call' = Some([last_call[1] EXCEPT
                            !.ret = Some(getter_result(last_call[1])),
                            !.cycle_time = IF last_call[1].oid \in {OidStatus, OidUptime}
                                           THEN @ ELSE last_call[1].elapsed])
    /\ UNCHANGED <<message_log, cycle_time, AGENT_DATA, catalog, clock, appended, sim, budget>>
    /\ UNCHANGED mgrVars

\* the products SpecPower evaluates get_power at: rpm and current end to end
\* of their clamp ranges, and two operating points of Engine-1 with one product
PowerPoints ==
    ({500 + (3000 * k) \div MaxPowerSteps : k \in 0..MaxPowerSteps}
        \X {(3000 * k) \div MaxPowerSteps : k \in 0..MaxPowerSteps})
    \cup {<<1550, 1360>>, <<2000, 1054>>}

PowerBases == {d.base_power : d \in GetterDevices}

\* get_power() of an agent whose get_rpm() and get_current() return rpm and
\* current; the agent keeps its base_power from one call to the next
ApplyPower ==
    /\ last_call # None
    /\ Len(last_call[1].evals) < 2
    /\ \E point \in PowerPoints :
          last_call' = Some([last_call[1] EXCEPT !.evals = Append(@,
                [rpm |-> point[1], current |-> point[2],
                 power |-> get_power_of(last_call[1].base_power, point[1], point[2])])])
    /\ UNCHANGED <<message_log, cycle_time, AGENT_DATA, catalog, clock, appended, sim, budget>>
    /\ UNCHANGED mgrVars

-----------------------------------------------------------------------------
(* Agent operations *)

\* get_agent_message_logs(): engine id -> agent.get_message_log(), the list
\* the agent keeps; nothing is assigned
get_agent_message_logs(logs) == [e \in DOMAIN logs |-> logs[e]]

\* get_mib_definitions(): per engine the catalog and len(agent.message_log);
\* nothing is assigned
get_mib_definitions(logs) ==
    [e \in DOMAIN logs |-> [engine_id |-> e, port |-> engines_config[e].port,
                            mib_definitions |-> CatalogOids,
                            message_count |-> Len(logs[e])]]

\* data.update({'last_updated': time.time(), 'snmp_port': data.get('port', ...)})
\* of GET /api/engines/enhanced on one entry, the clock read at t
enhanced_update(entry, t, number) ==
    [k \in DOMAIN entry \cup {"last_updated", "snmp_port"} |->
        IF k = "last_updated" THEN t
        ELSE IF k = "snmp_port"
             THEN (IF "port" \in DOMAIN entry THEN entry.port ELSE 1611 + number - 1)
             ELSE entry[k]]

\* the loop of get_enhanced_engines_data over AGENT_DATA.items(), begun at t
get_enhanced_engines_data(data, t) ==
    [e \in DOMAIN data |->
        LET number == CHOOSE i \in 1..Len(EngineOrder) : EngineOrder[i] = e
        IN  enhanced_update(data[e], t + number - 1, number)]

\* a caller invokes get_agent_message_logs()
GetAgentMessageLogs(maxReads) ==
    /\ budget.reads < maxReads
    /\ get_agent_message_logs(message_log) = message_log
    /\ budget' = [budget EXCEPT !.reads = @ + 1]
    /\ UNCHANGED <<message_log, cycle_time, AGENT_DATA, catalog, clock, appended, last_call, sim>>
    /\ UNCHANGED mgrVars

\* a caller invokes get_mib_definitions()
GetMibDefinitions(maxReads) ==
    /\ budget.reads < maxReads
    /\ DOMAIN get_mib_definitions(message_log) = EngineIds
    /\ budget' = [budget EXCEPT !.reads = @ + 1]
    /\ UNCHANGED <<message_log, cycle_time, AGENT_DATA, catalog, clock, appended, last_call, sim>>
    /\ UNCHANGED mgrVars

\* agent.get_mib_info(): the dictionary it returns holds self.mib_definitions
\* itself; nothing is assigned
get_mib_info(e, mib, log) ==
    [engine_id |-> e, port |-> engines_config[e].port, mib_definitions |-> mib,
     message_count |-> Len(log)]

\* a caller invokes get_mib_info() on an agent
GetMibInfo(maxReads) ==
    /\ budget.reads < maxReads
    /\ \E e \in EngineIds :
          get_mib_info(e, catalog[e], message_log[e]).mib_definitions = catalog[e]
    /\ budget' = [budget EXCEPT !.reads = @ + 1]
    /\ UNCHANGED <<message_log, cycle_time, AGENT_DATA, catalog, clock, appended, last_call, sim>>
    /\ UNCHANGED mgrVars

\* a caller invokes a getter of an agent directly; get_temperature, get_rpm,
\* get_current and through them get_power read the clock and assign
\* self.cycle_time, get_uptime reads the clock
CallGetter(maxCalls) ==
    /\ budget.getters < maxCalls
    /\ \E e \in EngineIds, oid \in CatalogOids :
          /\ GetterValues(e, oid, clock, SinSamples, NoiseSamples) # {}
          /\ cycle_time' = [cycle_time EXCEPT ![e] = GetterCycleTime(e, oid, clock, @)]
          /\ clock' = IF oid = OidStatus THEN clock ELSE clock + 1
    /\ budget' = [budget EXCEPT !.getters = @ + 1]
    /\ UNCHANGED <<message_log, AGENT_DATA, catalog, appended, last_call, sim>>
    /\ UNCHANGED mgrVars

\* the same calls made by the thread that runs the cycles, between two cycles
CallGetterBetween(maxCalls) ==
    /\ SimAllIdle
    /\ CallGetter(maxCalls)

GetMibInfoBetween(maxReads) ==
    /\ SimAllIdle
    /\ GetMibInfo(maxReads)

GetMibDefinitionsBetween(maxReads) ==
    /\ SimAllIdle
    /\ GetMibDefinitions(maxReads)

\* the handler of GET /api/engines/enhanced: one clock reading per entry of
\* AGENT_DATA and one for the timestamp of the response
GetEnhancedEnginesData(maxReads) ==
    /\ budget.reads < maxReads
    /\ AGENT_DATA' = get_enhanced_engines_data(AGENT_DATA, clock)
    /\ clock' = clock + Len(EngineOrder) + 1
    /\ budget' = [budget EXCEPT !.reads = @ + 1]
    /\ UNCHANGED <<message_log, cycle_time, catalog, appended, last_call, sim>>
    /\ UNCHANGED mgrVars

\* what a completed handle_snmp_request leaves for the properties to read
CallRecord(e, oid, h) ==
    Some([engine_id |-> e, oid |-> oid, ret |-> h.ret, raised |-> h.raised,
          before |-> Len(appended[e])])

\* agent.handle_snmp_request(oid) on engine e, run to completion with no
\* other writer in between; the generators draw from S and U
CallHandleRequest(e, oid, S, U) ==
    \E v \in (IF oid \in CatalogOids THEN GetterValues(e, oid, clock, S, U) ELSE {0}) :
        LET h == handle_snmp_request(e, oid, v, clock)
        IN  /\ message_log' = log_store(message_log, e, LogAll(message_log[e], h.records))
            /\ appended' = [appended EXCEPT ![e] = @ \o h.records]
            /\ cycle_time' = [cycle_time EXCEPT ![e] =
                                 IF oid \in CatalogOids
                                 THEN GetterCycleTime(e, oid, clock, @) ELSE @]
            /\ catalog' = [catalog EXCEPT ![e] = mib_get(@, oid).mib]
            /\ clock' = clock + 3
            /\ last_call' = CallRecord(e, oid, h)

\* a caller asks any engine for any OID, of the catalog or not
HandleRequest ==
    /\ SimAllIdle
    /\ budget.calls < MaxCalls
    /\ \E e \in EngineIds, oid \in OidDomain :
          CallHandleRequest(e, oid, SinSamples, NoiseSamples)
    /\ budget' = [budget EXCEPT !.calls = @ + 1]
    /\ UNCHANGED <<AGENT_DATA, sim>>
    /\ UNCHANGED mgrVars

\* a caller asks an engine for an OID outside the catalog, between two cycles
DirectUnknown ==
    /\ SimAllIdle
    /\ budget.direct < MaxDirect
    /\ \E e \in EngineIds : CallHandleRequest(e, OidUnknown, Nominal, Nominal)
    /\ budget' = [budget EXCEPT !.direct = @ + 1]
    /\ UNCHANGED <<AGENT_DATA, sim>>
    /\ UNCHANGED mgrVars

\* thread w enters simulate_snmp_queries()
SimBegin(w) ==
    /\ sim[w].phase = "idle"
    /\ budget.cycles < MaxCycles
    /\ sim' = [sim EXCEPT ![w] = [phase |-> "request", i |-> 1, j |-> 1,
                                  pending |-> <<>>, ret |-> None]]
    /\ budget' = [budget EXCEPT !.cycles = @ + 1]
    /\ UNCHANGED <<message_log, appended, cycle_time, clock, AGENT_DATA, catalog, last_call>>
    /\ UNCHANGED mgrVars

\* the same step in a run of at most maxCycles cycles
SimBeginWithin(w, maxCycles) ==
    /\ budget.cycles < maxCycles
    /\ SimBegin(w)

\* inside agent.handle_snmp_request(oid) of the loop: the getter is evaluated
\* and the first record is handed to log_snmp_message
SimLogRequest(w, S, U) ==
    /\ sim[w].phase = "request"
    /\ LET e == EngineOrder[sim[w].i]
           oid == CatalogOrder[sim[w].j]
       IN  \E v \in GetterValues(e, oid, clock, S, U) :
              LET h == handle_snmp_request(e, oid, v, clock)
              IN  /\ message_log' = log_store(message_log, e,
                                        log_snmp_message(message_log[e], Head(h.records)))
                  /\ appended' = [appended EXCEPT ![e] = Append(@, Head(h.records))]
                  /\ cycle_time' = [cycle_time EXCEPT
                                       ![e] = GetterCycleTime(e, oid, clock, @)]
                  /\ catalog' = [catalog EXCEPT ![e] = mib_get(@, oid).mib]
                  /\ sim' = [sim EXCEPT ![w].phase = "response",
                                        ![w].pending = Tail(h.records),
                                        ![w].ret = h.ret]
    /\ clock' = clock + 2
    /\ UNCHANGED <<AGENT_DATA, last_call, budget>>
    /\ UNCHANGED mgrVars

\* the same step in a run that begins no request from clock value maxClock on
SimLogRequestUntil(w, maxClock) ==
    /\ clock < maxClock
    /\ SimLogRequest(w, Nominal, Nominal)

\* the second record is handed to log_snmp_message and the call returns
SimLogResponse(w) ==
    /\ sim[w].phase = "response"
    /\ LET e == EngineOrder[sim[w].i]
       IN  /\ message_log' = log_store(message_log, e, LogAll(message_log[e], sim[w].pending))
           /\ appended' = [appended EXCEPT ![e] = @ \o sim[w].pending]
           /\ catalog' = [catalog EXCEPT ![e] = mib_get(@, CatalogOrder[sim[w].j]).mib]
           /\ last_call' = Some([engine_id |-> e, oid |-> CatalogOrder[sim[w].j],
                                 ret |-> sim[w].ret, raised |-> FALSE,
                                 before |-> Len(appended[e]) - 1])
    /\ sim' = [sim EXCEPT
                 ![w].phase = IF sim[w].j < Len(CatalogOrder) THEN "request" ELSE "update",
                 ![w].j = IF sim[w].j < Len(CatalogOrder) THEN @ + 1 ELSE @,
                 ![w].pending = <<>>,
                 ![w].ret = None]
    /\ clock' = clock + 1
    /\ UNCHANGED <<cycle_time, AGENT_DATA, budget>>
    /\ UNCHANGED mgrVars

\* log_snmp_message('GET_REQUEST', oid) up to and with its append, inside the
\* agent.handle_snmp_request(oid) of the loop
SimAppendRequest(w) ==
    /\ sim[w].phase = "request"
    /\ LET e == EngineOrder[sim[w].i]
           oid == CatalogOrder[sim[w].j]
       IN  \E v \in GetterValues(e, oid, clock, Nominal, Nominal) :
              LET h == handle_snmp_request(e, oid, v, clock)
              IN  /\ message_log' = log_store(message_log, e,
                                        log_append(message_log[e], Head(h.records)))
                  /\ appended' = [appended EXCEPT ![e] = Append(@, Head(h.records))]
                  /\ cycle_time' = [cycle_time EXCEPT
                                       ![e] = GetterCycleTime(e, oid, clock, @)]
                  /\ catalog' = [catalog EXCEPT ![e] = mib_get(@, oid).mib]
                  /\ sim' = [sim EXCEPT ![w].phase = "request_appended",
                                        ![w].pending = Tail(h.records),
                                        ![w].ret = h.ret]
    /\ clock' = clock + 2
    /\ UNCHANGED <<AGENT_DATA, last_call, budget>>
    /\ UNCHANGED mgrVars

\* log_snmp_message('GET_RESPONSE', oid, value) up to and with its append
SimAppendResponse(w) ==
    /\ sim[w].phase = "response"
    /\ LET e == EngineOrder[sim[w].i]
       IN  /\ message_log' = log_store(message_log, e,
                                 log_append(message_log[e], Head(sim[w].pending)))
           /\ appended' = [appended EXCEPT ![e] = Append(@, Head(sim[w].pending))]
           /\ catalog' = [catalog EXCEPT ![e] = mib_get(@, CatalogOrder[sim[w].j]).mib]
    /\ sim' = [sim EXCEPT ![w].phase = "response_appended", ![w].pending = <<>>]
    /\ clock' = clock + 1
    /\ UNCHANGED <<cycle_time, AGENT_DATA, last_call, budget>>
    /\ UNCHANGED mgrVars

\* the rest of that log_snmp_message call: the test of the length and the
\* pop(0); after the one of the response handle_snmp_request returns
SimEvict(w) ==
    /\ sim[w].phase \in {"request_appended", "response_appended"}
    /\ LET e == EngineOrder[sim[w].i]
       IN  /\ message_log' = log_store(message_log, e, log_evict(message_log[e]))
           /\ last_call' = IF sim[w].phase = "request_appended" THEN last_call
                           ELSE Some([engine_id |-> e, oid |-> CatalogOrder[sim[w].j],
                                      ret |-> sim[w].ret, raised |-> FALSE,
                                      before |-> Len(appended[e]) - 2])
    /\ sim' = [sim EXCEPT
                 ![w].phase = IF sim[w].phase = "request_appended" THEN "response"
                              ELSE IF sim[w].j < Len(CatalogOrder) THEN "request"
                              ELSE "update",
                 ![w].j = IF sim[w].phase = "response_appended" /\ sim[w].j < Len(CatalogOrder)
                          THEN @ + 1 ELSE @,
                 ![w].ret = IF sim[w].phase = "response_appended" THEN None ELSE @]
    /\ UNCHANGED <<cycle_time, AGENT_DATA, catalog, clock, appended, budget>>
    /\ UNCHANGED mgrVars

\* AGENT_DATA[engine_id].update({...}) after the engine's six requests
SimUpdateData(w, S, U) ==
    /\ sim[w].phase = "update"
    /\ LET e == EngineOrder[sim[w].i]
       IN  /\ \E values \in agent_data_values(e, clock, S, U) :
                 AGENT_DATA' = [AGENT_DATA EXCEPT ![e] = agent_data_update(@, values)]
           /\ cycle_time' = [cycle_time EXCEPT ![e] = clock - start_time[e]]
    /\ sim' = [sim EXCEPT ![w] = IF sim[w].i < Len(EngineOrder)
                                 THEN [@ EXCEPT !.phase = "request", !.i = @ + 1, !.j = 1]
                                 ELSE SimIdle]
    /\ clock' = clock + 1
    /\ UNCHANGED <<message_log, appended, catalog, last_call, budget>>
    /\ UNCHANGED mgrVars

-----------------------------------------------------------------------------
(* Strings the manager receives and parses                                  *)
(*                                                                         *)
(* A string is kept by what float() and int() make of it: the text of an   *)
(* integer ("0", "1"), the text of a decimal number ("105.0", its value in *)
(* hundredths), a text that is no number, or the empty string.             *)

StrInt(n) == [kind |-> "int", v |-> n]

StrFloat(h) == [kind |-> "float", v |-> h]

StrText == [kind |-> "text", v |-> 0]

StrEmpty == [kind |-> "empty", v |-> 0]

\* bool(value) for value a string or None: None and "" are false
Truthy(value) == value # None /\ value[1].kind # "empty"

\* float(s) succeeds on the text of an integer or of a decimal number
CanFloat(str) == str.kind \in {"int", "float"}

\* the float, in hundredths
FloatOf(str) == IF str.kind = "int" THEN 100 * str.v ELSE str.v

\* int(s) succeeds on the text of an integer only: int("105.0") raises ValueError
CanInt(str) == str.kind = "int"

IntOf(str) == str.v

\* the characters of the strings _generate_simulation_data compares
OidChars(oid) ==
    <<"1", ".", "3", ".", "6", ".", "1", ".", "4", ".", "1", ".",
      "9", "9", "9", "9", ".", "1", ".", "1", ".">>
    \o << CASE oid = OidTemperature -> "1"
            [] oid = OidRpm -> "2"
            [] oid = OidCurrent -> "3"
            [] oid = OidPower -> "4"
            [] oid = OidStatus -> "5"
            [] oid = OidUptime -> "6"
            [] OTHER -> "7" >>
    \o <<".", "0">>

NameChars ==
    [temperature |-> <<"t", "e", "m", "p", "e", "r", "a", "t", "u", "r", "e">>,
     rpm |-> <<"r", "p", "m">>,
     current |-> <<"c", "u", "r", "r", "e", "n", "t">>,
     power |-> <<"p", "o", "w", "e", "r">>,
     status |-> <<"s", "t", "a", "t", "u", "s">>,
     uptime |-> <<"u", "p", "t", "i", "m", "e">>]

\* Python's  part in text  on strings
Contains(part, text) ==
    \E k \in 1..(Len(text) - Len(part) + 1) : SubSeq(text, k, k + Len(part) - 1) = part

\* for each OID string, the parameter names that occur in it
OidMentions ==
    [oid \in OidDomain |->
        {name \in DOMAIN NameChars : Contains(NameChars[name], OidChars(oid))}]

-----------------------------------------------------------------------------
(* EngineData *)

\* EngineData.__init__
EngineData(engine_id, port) ==
    [engine_id |-> engine_id, port |-> port, temperature |-> 0, rpm |-> 0,
     current |-> 0, power |-> 0, status |-> 0, uptime |-> 0,
     last_updated |-> None, health_status |-> "unknown"]

\* a plausible slip: the thresholds compared with >= instead of >
update_health_status_inclusive(engine) ==
    [engine EXCEPT !.health_status =
        IF engine.temperature >= 100 * 100 THEN "critical"
        ELSE IF engine.temperature >= 80 * 100 THEN "warning"
        ELSE "normal"]

\* EngineData.update_health_status (temperature in hundredths)
update_health_status(engine) ==
    [engine EXCEPT !.health_status =
        IF engine.temperature > 100 * 100 THEN "critical"
        ELSE IF engine.temperature > 80 * 100 THEN "warning"
        ELSE "normal"]

\* EngineData.to_dict
to_dict(engine) ==
    [engine_id |-> engine.engine_id, port |-> engine.port,
     temperature |-> engine.temperature, rpm |-> engine.rpm,
     current |-> engine.current, power |-> engine.power,
     status |-> engine.status, uptime |-> engine.uptime,
     last_updated |-> engine.last_updated, health_status |-> engine.health_status]

-----------------------------------------------------------------------------
(* SNMPManager: the OID table and the fallback *)

\* SNMPManager.__init__: self.engines
manager_engines ==
    [e \in EngineIds |->
        CASE e = "Engine-1" -> EngineData("Engine-1", 1611)
          [] e = "Engine-2" -> EngineData("Engine-2", 1612)
          [] e = "Engine-3" -> EngineData("Engine-3", 1613)]

\* SNMPManager.__init__: self.oids, in insertion order
ParamOrder == <<"temperature", "rpm", "current", "power", "status", "uptime">>

oids ==
    [temperature |-> OidTemperature, rpm |-> OidRpm, current |-> OidCurrent,
     power |-> OidPower, status |-> OidStatus, uptime |-> OidUptime]

poll_interval == 2

\* base_values of _generate_simulation_data (current in hundredths)
base_values ==
    [e \in EngineIds |->
        CASE e = "Engine-1" -> [temp |-> 42, rpm |-> 1750, current |-> 1180, power |-> 1450]
          [] e = "Engine-2" -> [temp |-> 48, rpm |-> 1850, current |-> 1320, power |-> 1620]
          [] e = "Engine-3" -> [temp |-> 45, rpm |-> 1800, current |-> 1250, power |-> 1500]]

\* f"Engine-{port - 1610}", and base_values.get(engine_id, base_values['Engine-3'])
BaseOfPort(port) ==
    IF port = 1611 THEN base_values["Engine-1"]
    ELSE IF port = 1612 THEN base_values["Engine-2"]
    ELSE base_values["Engine-3"]

\* what the sine terms and the uniform draw of _generate_simulation_data come
\* to: time_factor and cycle_factor in thousandths, random_factor in
\* thousandths of -0.1 .. 0.1, current_time % 86400 in seconds
SimDraws ==
    [time_factor : SinSamples, cycle_factor : SinSamples,
     random_factor : {-100, 100}, seconds : {0}]

\* SNMPManager._generate_simulation_data: the branch is chosen by looking for
\* the parameter's name inside the OID string ('temperature' in oid, ...)
_generate_simulation_data(oid, port, draw) ==
    LET base == BaseOfPort(port)
        tf == draw.time_factor
        cf == draw.cycle_factor
        rf == draw.random_factor
    IN  IF "temperature" \in OidMentions[oid]
        THEN StrFloat(10 * RoundDiv(Clamp(20 * 1000, 120 * 1000,
                                         base.temp * 1000 + 3 * tf + 5 * cf + 2 * rf), 100))
        ELSE IF "rpm" \in OidMentions[oid]
        THEN StrInt(Clamp(500 * 1000, 3000 * 1000,
                          base.rpm * 1000 + 50 * tf + 30 * cf + 20 * rf) \div 1000)
        ELSE IF "current" \in OidMentions[oid]
        THEN StrFloat(RoundDiv(Clamp(0, 30 * 2000,
                                     base.current * 20 + 3 * tf + 2 * cf + rf), 20))
        ELSE IF "power" \in OidMentions[oid]
        THEN StrInt(Clamp(0, 2500 * 1000,
                          base.power * 1000 + 200 * tf + 150 * cf + 100 * rf) \div 1000)
        ELSE IF "status" \in OidMentions[oid]
        THEN StrInt(1)
        ELSE IF "uptime" \in OidMentions[oid]
        THEN StrInt(draw.seconds)
        ELSE StrInt(0)

\* what an agent that answers can send back (varBind.prettyPrint())
ReplyStrings == {StrInt(1), StrFloat(105 * 100), StrText, StrEmpty}

\* the ways a real query ends with the library present: getCmd reports an
\* error indication or an error status, something raises, the reply holds no
\* variable binding, or the reply's first binding is the string reply
FailedOutcomes ==
    {[kind |-> k, reply |-> StrEmpty] :
        k \in {"errorIndication", "errorStatus", "exception"}}

AnsweredOutcomes ==
    {[kind |-> "noVarBinds", reply |-> StrEmpty]}
    \cup {[kind |-> "reply", reply |-> r] : r \in ReplyStrings}

\* SNMPManager.query_snmp_agent: the string returned, or None
query_snmp_agent(oid, port, available, outcome, draw) ==
    IF ~available
    THEN Some(_generate_simulation_data(oid, port, draw))
    ELSE IF outcome.kind \in {"errorIndication", "errorStatus", "exception"}
    THEN Some(_generate_simulation_data(oid, port, draw))
    ELSE IF outcome.kind = "reply"
    THEN Some(outcome.reply)
    ELSE None

-----------------------------------------------------------------------------
(* SNMPManager.update_engine_data, statement by statement *)

\* a plausible slip: a value that cannot be converted re-initialises the entry
apply_value_reset(engine, param, value) ==
    IF ~Truthy(value)
    THEN [raised |-> FALSE, assigned |-> FALSE, engine |-> engine]
    ELSE IF param \in {"temperature", "current"}
    THEN IF CanFloat(value[1])
         THEN [raised |-> FALSE, assigned |-> TRUE,
               engine |-> [engine EXCEPT ![param] = FloatOf(value[1])]]
         ELSE [raised |-> TRUE, assigned |-> FALSE,
               engine |-> EngineData(engine.engine_id, engine.port)]
    ELSE IF CanInt(value[1])
         THEN [raised |-> FALSE, assigned |-> TRUE,
               engine |-> [engine EXCEPT ![param] = IntOf(value[1])]]
         ELSE [raised |-> TRUE, assigned |-> FALSE,
               engine |-> EngineData(engine.engine_id, engine.port)]

\* the body of the loop for one parameter: if value: engine.<param> = float(value)
\* or int(value); raised tells that the conversion raised ValueError
apply_value(engine, param, value) ==
    IF ~Truthy(value)
    THEN [raised |-> FALSE, assigned |-> FALSE, engine |-> engine]
    ELSE IF param \in {"temperature", "current"}
    THEN IF CanFloat(value[1])
         THEN [raised |-> FALSE, assigned |-> TRUE,
               engine |-> [engine EXCEPT ![param] = FloatOf(value[1])]]
         ELSE [raised |-> TRUE, assigned |-> FALSE, engine |-> engine]
    ELSE IF CanInt(value[1])
         THEN [raised |-> FALSE, assigned |-> TRUE,
               engine |-> [engine EXCEPT ![param] = IntOf(value[1])]]
         ELSE [raised |-> TRUE, assigned |-> FALSE, engine |-> engine]

\* the outcomes a query can have
QueryOutcomes(available, mayAnswer) ==
    IF ~available
    THEN {[kind |-> "unavailable", reply |-> StrEmpty]}
    ELSE FailedOutcomes \cup (IF mayAnswer THEN AnsweredOutcomes ELSE {})

\* thread 0 is a caller of poll_all_engines(); threads 1.. are polling_loop threads
Tids == 0..MaxThreads

\* no call of get_engines_summary() is under way
ScanIdle == [k |-> 0, part |-> <<>>, seen |-> {}]

\* the four passes of get_engines_summary over self.engines.values(), each
\* named by the key of the summary it computes
ScanPasses == <<"running_engines", "avg_temperature", "avg_power", "health_distribution">>

\* history: every state of the cache that a get_engines_summary() call under
\* way has lived through, engs being the cache a step of the manager leaves
ScanSees(engs) ==
    IF scan.k \in 1..Len(ScanPasses) THEN [scan EXCEPT !.seen = @ \cup {engs}] ELSE scan

ThreadNone ==
    [pc |-> "none", i |-> 0, j |-> 0, pre |-> None, delay |-> 0,
     assigned |-> {}, synthetic |-> {}, erred |-> FALSE]

ThreadIdle ==
    [pc |-> "idle", i |-> 0, j |-> 0, pre |-> None, delay |-> 0,
     assigned |-> {}, synthetic |-> {}, erred |-> FALSE]

\* a thread entering poll_all_engines: update_engine_data of the first engine
ThreadPolling(engs) ==
    [pc |-> "update", i |-> 1, j |-> 1, pre |-> Some(engs[EngineOrder[1]]), delay |-> 0,
     assigned |-> {}, synthetic |-> {}, erred |-> FALSE]

\* a plausible slip: poll_all_engines tests self.running between two engines
\* and returns from a stopped manager's cycle, the loop then ending
AfterUpdate_interruptible(tid, engs, raised) ==
    LET th == threads[tid]
    IN  IF th.i < Len(EngineOrder)
        THEN IF tid # 0 /\ ~running
             THEN [ThreadIdle EXCEPT !.pc = "exited"]
             ELSE [th EXCEPT !.i = @ + 1, !.j = 1,
                             !.pre = Some(engs[EngineOrder[th.i + 1]]),
                             !.assigned = {}, !.synthetic = {}, !.erred = @ \/ raised]
        ELSE IF tid = 0 THEN ThreadIdle
        ELSE [ThreadIdle EXCEPT !.pc = "sleep", !.delay = poll_interval,
                                !.erred = th.erred \/ raised]

\* a plausible slip: update_engine_data lets the exception through, which ends
\* poll_all_engines at once (a polling_loop then sleeps 5 seconds)
AfterUpdate_propagating(tid, engs, raised) ==
    LET th == threads[tid]
    IN  IF raised
        THEN IF tid = 0 THEN ThreadIdle
             ELSE [ThreadIdle EXCEPT !.pc = "sleep", !.delay = 5, !.erred = TRUE]
        ELSE IF th.i < Len(EngineOrder)
        THEN [th EXCEPT !.i = @ + 1, !.j = 1, !.pre = Some(engs[EngineOrder[th.i + 1]]),
                        !.assigned = {}, !.synthetic = {}]
        ELSE IF tid = 0 THEN ThreadIdle
        ELSE [ThreadIdle EXCEPT !.pc = "sleep", !.delay = poll_interval,
                                !.erred = th.erred]

\* update_engine_data of engine i has returned: the for loop of
\* poll_all_engines goes on, or the cycle is over (the caller gets control
\* back, a polling_loop goes to time.sleep(self.poll_interval)).  raised says
\* whether this update ended in its own except clause, which returns normally:
\* nothing reaches the except clause of polling_loop and its time.sleep(5).
\* erred keeps, for the properties, whether an update of the cycle raised.
AfterUpdate(tid, engs, raised) ==
    LET th == threads[tid]
    IN  IF th.i < Len(EngineOrder)
        THEN [th EXCEPT !.i = @ + 1, !.j = 1, !.pre = Some(engs[EngineOrder[th.i + 1]]),
                        !.assigned = {}, !.synthetic = {}, !.erred = @ \/ raised]
        ELSE IF tid = 0 THEN ThreadIdle
        ELSE [ThreadIdle EXCEPT !.pc = "sleep", !.delay = poll_interval,
                                !.erred = th.erred \/ raised]

\* a reader that took its snapshot of engine e during this update learns what
\* the update left
ReaderAfter(e, entry) ==
    IF reader # None /\ reader[1].engine_id = e /\ ~reader[1].done
    THEN Some([reader[1] EXCEPT !.done = TRUE, !.post = Some(to_dict(entry))])
    ELSE reader

Ports == {manager_engines[e].port : e \in EngineIds}

\* what query_snmp_agent(oids[param], port) can return, with whether an agent
\* answered the query
QueryResultsOf(param, port, available, mayAnswer) ==
    {[value |-> query_snmp_agent(oids[param], port, available, outcome, draw),
      answered |-> outcome \in AnsweredOutcomes] :
        outcome \in QueryOutcomes(available, mayAnswer), draw \in SimDraws}

\* the same, tabulated once
QueryResultsTable ==
    [param \in DOMAIN oids |-> [port \in Ports |-> [available \in BOOLEAN |->
        [mayAnswer \in BOOLEAN |-> QueryResultsOf(param, port, available, mayAnswer)]]]]

QueryResults(param, port, available, mayAnswer) ==
    QueryResultsTable[param][port][available][mayAnswer]

\* One turn of the for loop of update_engine_data on the state st of the call
\* (the entry, and for the properties: the parameters assigned so far, those
\* assigned from the fallback, whether the call has raised); res is what the
\* query returned.
update_param(st, param, res) ==
    LET r == apply_value(st.engine, param, res.value)
    IN  [engine |-> r.engine,
         raised |-> r.raised,
         assigned |-> IF r.assigned THEN st.assigned \cup {param} ELSE st.assigned,
         synthetic |-> IF r.assigned /\ ~res.answered
                       THEN st.synthetic \cup {param} ELSE st.synthetic]

\* what a returned update_engine_data leaves for the properties to read
Completed(st) ==
    Some([assigned |-> st.assigned, synthetic |-> st.synthetic, raised |-> st.raised])

\* value = self.query_snmp_agent(oid, engine.port); if value: engine.x = ...
\* A ValueError leaves the loop for the except clause, which prints and returns.
QueryStep(tid, maxAnswers) ==
    /\ threads[tid].pc = "update"
    /\ threads[tid].j \in 1..Len(ParamOrder)
    /\ LET e == EngineOrder[threads[tid].i]
           param == ParamOrder[threads[tid].j]
       IN  \E res \in QueryResults(param, engines[e].port, PYSNMP_AVAILABLE,
                                   used.answers < maxAnswers) :
              LET r == update_param([engine |-> engines[e], raised |-> FALSE,
                                     assigned |-> threads[tid].assigned,
                                     synthetic |-> threads[tid].synthetic], param, res)
                  engs == [engines EXCEPT ![e] = r.engine]
              IN  /\ engines' = engs
                  /\ threads' = [threads EXCEPT ![tid] =
                                    IF r.raised THEN AfterUpdate(tid, engs, TRUE)
                                    ELSE [@ EXCEPT !.j = @ + 1, !.assigned = r.assigned,
                                                   !.synthetic = r.synthetic]]
                  /\ reader' = IF r.raised THEN ReaderAfter(e, engs[e]) ELSE reader
                  /\ last_update' = IF r.raised
                                    THEN [last_update EXCEPT ![e] = Completed(r)]
                                    ELSE last_update
                  /\ used' = [used EXCEPT !.answers = IF res.answered THEN @ + 1 ELSE @]
    /\ UNCHANGED <<summary, PYSNMP_AVAILABLE, running, now, health_done>>
    /\ UNCHANGED agentVars
    /\ scan' = ScanSees(engines')

\* engine.update_health_status()
HealthStep(tid) ==
    /\ threads[tid].pc = "update"
    /\ threads[tid].j = Len(ParamOrder) + 1
    /\ LET e == EngineOrder[threads[tid].i]
       IN  /\ engines' = [engines EXCEPT ![e] = update_health_status(@)]
           /\ health_done' = health_done \cup {e}
    /\ threads' = [threads EXCEPT ![tid].j = @ + 1]
    /\ UNCHANGED <<summary, PYSNMP_AVAILABLE, running, now, reader, last_update, used>>
    /\ UNCHANGED agentVars
    /\ scan' = ScanSees(engines')

\* engine.last_updated = datetime.now().isoformat(), and the method returns
StampStep(tid) ==
    /\ threads[tid].pc = "update"
    /\ threads[tid].j = Len(ParamOrder) + 2
    /\ LET e == EngineOrder[threads[tid].i]
           engs == [engines EXCEPT ![e].last_updated = Some(now)]
       IN  /\ engines' = engs
           /\ threads' = [threads EXCEPT ![tid] = AfterUpdate(tid, engs, FALSE)]
           /\ reader' = ReaderAfter(e, engs[e])
           /\ last_update' = [last_update EXCEPT ![e] =
                                 Completed([assigned |-> threads[tid].assigned,
                                            synthetic |-> threads[tid].synthetic,
                                            raised |-> FALSE])]
    /\ now' = now + 1
    /\ UNCHANGED <<summary, PYSNMP_AVAILABLE, running, health_done, used>>
    /\ UNCHANGED agentVars
    /\ scan' = ScanSees(engines')

\* the for loop of update_engine_data from parameter j on, results[k] being
\* what the query for parameter k returns
RECURSIVE update_loop(_, _, _)
update_loop(st, j, results) ==
    IF j > Len(ParamOrder)
    THEN st
    ELSE LET r == update_param(st, ParamOrder[j], results[j])
         IN  IF r.raised THEN r ELSE update_loop(r, j + 1, results)

\* update_engine_data as a whole, run at time t with no other thread in between
update_engine_data(engine, results, t) ==
    LET r == update_loop([engine |-> engine, raised |-> FALSE,
                          assigned |-> {}, synthetic |-> {}], 1, results)
    IN  IF r.raised
        THEN r
        ELSE [r EXCEPT !.engine =
                 [update_health_status(r.engine) EXCEPT !.last_updated = Some(t)]]

\* the results of the queries for parameters k .. 6 of one update_engine_data,
\* at most answersLeft of them answered by an agent
RECURSIVE QueryResultVectorsOf(_, _, _, _)
QueryResultVectorsOf(k, port, available, answersLeft) ==
    IF k > Len(ParamOrder)
    THEN {<<>>}
    ELSE UNION {{<<res>> \o rest :
                    rest \in QueryResultVectorsOf(k + 1, port, available,
                                 IF res.answered THEN answersLeft - 1 ELSE answersLeft)} :
                res \in QueryResults(ParamOrder[k], port, available, answersLeft > 0)}

\* the same for all six parameters, tabulated once
QueryResultVectorsTable ==
    [port \in Ports |-> [available \in BOOLEAN |-> [answersLeft \in 0..Max(MaxThreadAnswers, MaxBackoffAnswers) |->
        QueryResultVectorsOf(1, port, available, answersLeft)]]]

QueryResultVectors(port, available, answersLeft) ==
    QueryResultVectorsTable[port][available][answersLeft]

\* a polling_loop thread runs update_engine_data(engine i) from its first
\* statement to its return
UpdateEngine(tid, maxAnswers) ==
    /\ threads[tid].pc = "update"
    /\ LET e == EngineOrder[threads[tid].i]
       IN  \E vec \in QueryResultVectors(engines[e].port, PYSNMP_AVAILABLE,
                                         maxAnswers - used.answers) :
              LET r == update_engine_data(engines[e], vec, now)
                  engs == [engines EXCEPT ![e] = r.engine]
              IN  /\ engines' = engs
                  /\ threads' = [threads EXCEPT ![tid] = AfterUpdate(tid, engs, r.raised)]
                  /\ reader' = ReaderAfter(e, engs[e])
                  /\ health_done' = IF r.raised THEN health_done ELSE health_done \cup {e}
                  /\ last_update' = [last_update EXCEPT ![e] = Completed(r)]
                  /\ used' = [used EXCEPT
                                 !.answers = @ + Cardinality({k \in 1..Len(ParamOrder) :
                                                                 vec[k].answered})]
    /\ now' = now + 1
    /\ UNCHANGED <<summary, PYSNMP_AVAILABLE, running>>
    /\ UNCHANGED agentVars
    /\ scan' = ScanSees(engines')

\* update_engine_data returns to the thread that called it, whatever it did to
\* the entry: what every UpdateEngine step of that thread does to the thread
UpdateReturns(tid) ==
    /\ threads[tid].pc = "update"
    /\ \E raised \in BOOLEAN :
          threads' = [threads EXCEPT ![tid] = AfterUpdate(tid, engines, raised)]

\* a caller invokes poll_all_engines()
PollAllEngines(maxPolls) ==
    /\ threads[0].pc = "idle"
    /\ used.polls < maxPolls
    /\ threads' = [threads EXCEPT ![0] = ThreadPolling(engines)]
    /\ used' = [used EXCEPT !.polls = @ + 1]
    /\ UNCHANGED <<summary, PYSNMP_AVAILABLE, engines, running, now, reader, health_done, last_update>>
    /\ UNCHANGED agentVars
    /\ scan' = ScanSees(engines')

-----------------------------------------------------------------------------
(* SNMPManager: start_polling, polling_loop, stop_polling *)

\* self.running = True; a new thread running polling_loop is started (the
\* run makes at most maxLoops such calls)
StartPolling(maxLoops) ==
    /\ \E tid \in 1..maxLoops :
          /\ threads[tid].pc = "none"
          /\ \A other \in 1..(tid - 1) : threads[other].pc # "none"
          /\ threads' = [threads EXCEPT ![tid].pc = "check"]
    /\ running' = TRUE
    /\ UNCHANGED <<summary, PYSNMP_AVAILABLE, engines, now, reader, health_done, last_update, used>>
    /\ UNCHANGED agentVars
    /\ scan' = ScanSees(engines')

\* self.running = False
StopPolling ==
    /\ running' = FALSE
    /\ UNCHANGED <<summary, PYSNMP_AVAILABLE, engines, threads, now, reader, health_done,
                   last_update, used>>
    /\ UNCHANGED agentVars
    /\ scan' = ScanSees(engines')

\* a plausible slip: while True, the flag is never read
LoopCheck_unconditional(tid, maxPolls) ==
    /\ threads[tid].pc = "check"
    /\ used.polls < maxPolls
    /\ threads' = [threads EXCEPT ![tid].pc = "enter"]
    /\ used' = [used EXCEPT !.polls = @ + 1]
    /\ UNCHANGED <<summary, PYSNMP_AVAILABLE, engines, running, now, reader, health_done, last_update>>
    /\ UNCHANGED agentVars
    /\ scan' = ScanSees(engines')

\* start_polling() by a caller that calls it only when the manager is stopped
RestartPolling(maxLoops) ==
    /\ ~running
    /\ StartPolling(maxLoops)

\* while self.running: the loop reads the flag and goes on to its body, or ends
LoopCheck(tid, maxPolls) ==
    /\ threads[tid].pc = "check"
    /\ IF running
       THEN /\ used.polls < maxPolls
            /\ threads' = [threads EXCEPT ![tid].pc = "enter"]
            /\ used' = [used EXCEPT !.polls = @ + 1]
       ELSE /\ threads' = [threads EXCEPT ![tid].pc = "exited"]
            /\ used' = used
    /\ UNCHANGED <<summary, PYSNMP_AVAILABLE, engines, running, now, reader, health_done, last_update>>
    /\ UNCHANGED agentVars
    /\ scan' = ScanSees(engines')

\* self.poll_all_engines(), called after the flag was read: the flag may have
\* changed since
LoopEnter(tid) ==
    /\ threads[tid].pc = "enter"
    /\ threads' = [threads EXCEPT ![tid] = ThreadPolling(engines)]
    /\ UNCHANGED <<summary, PYSNMP_AVAILABLE, engines, running, now, reader, health_done,
                   last_update, used>>
    /\ UNCHANGED agentVars
    /\ scan' = ScanSees(engines')

\* time.sleep(...) returns
LoopWake(tid) ==
    /\ threads[tid].pc = "sleep"
    /\ threads' = [threads EXCEPT ![tid] = [@ EXCEPT !.pc = "check", !.delay = 0]]
    /\ UNCHANGED <<summary, PYSNMP_AVAILABLE, engines, running, now, reader, health_done,
                   last_update, used>>
    /\ UNCHANGED agentVars
    /\ scan' = ScanSees(engines')

-----------------------------------------------------------------------------
(* SNMPManager: the read operations *)

\* an identifier outside the fleet, and the identifiers readers ask for
EngineUnknown == "Engine-9"

EngineIdDomain == EngineIds \cup {EngineUnknown}

\* a plausible slip: a default entry instead of None for an unknown id
get_engine_data_default(engs, engine_id) ==
    IF engine_id \in DOMAIN engs THEN Some(to_dict(engs[engine_id]))
    ELSE Some(to_dict(EngineData(engine_id, 0)))

\* get_engine_data(engine_id): the dictionary, or None for an unknown id
get_engine_data(engs, engine_id) ==
    IF engine_id \in DOMAIN engs THEN Some(to_dict(engs[engine_id])) ELSE None

\* the engines of a cache in the order the dictionary keeps them
FleetOrder(engs) == SelectSeq(EngineOrder, LAMBDA e : e \in DOMAIN engs)

\* sum(engine.x for engine in self.engines.values()) over the engines of order
RECURSIVE FieldSum(_, _, _)
FieldSum(engs, order, field) ==
    IF order = <<>> THEN 0
    ELSE engs[Head(order)][field] + FieldSum(engs, Tail(order), field)

\* a plausible slip: the count is set instead of incremented
RECURSIVE health_counts_flat(_, _, _)
health_counts_flat(engs, order, counts) ==
    IF order = <<>> THEN counts
    ELSE LET status == engs[Head(order)].health_status
         IN  health_counts_flat(engs, Tail(order),
                 [st \in DOMAIN counts \cup {status} |->
                     IF st = status THEN 1 ELSE counts[st]])

\* for engine in self.engines.values():
\*     health_counts[status] = health_counts.get(status, 0) + 1
RECURSIVE health_counts(_, _, _)
health_counts(engs, order, counts) ==
    IF order = <<>> THEN counts
    ELSE LET status == engs[Head(order)].health_status
         IN  health_counts(engs, Tail(order),
                 [st \in DOMAIN counts \cup {status} |->
                     (IF st \in DOMAIN counts THEN counts[st] ELSE 0)
                     + (IF st = status THEN 1 ELSE 0)])

\* a plausible slip: the sums are divided by the three devices of the
\* configuration instead of len(self.engines)
get_engines_summary_by_three(engs) ==
    LET order == FleetOrder(engs)
        total_engines == Len(order)
    IN  IF total_engines = 0
        THEN [raised |-> TRUE]
        ELSE [raised |-> FALSE,
              total_engines |-> total_engines,
              running_engines |-> Cardinality({e \in DOMAIN engs : engs[e].status = 1}),
              avg_temperature |-> RoundDiv(FieldSum(engs, order, "temperature"), 10 * 3),
              avg_power |-> RoundHalfEven(FieldSum(engs, order, "power"), 3),
              health_distribution |-> health_counts(engs, order, <<>>)]

\* get_engines_summary(): the dictionary it returns (avg_temperature in
\* tenths, avg_power in units), or the ZeroDivisionError its divisions by
\* total_engines raise when the cache holds no engine
get_engines_summary(engs) ==
    LET order == FleetOrder(engs)
        total_engines == Len(order)
    IN  IF total_engines = 0
        THEN [raised |-> TRUE]
        ELSE [raised |-> FALSE,
              total_engines |-> total_engines,
              running_engines |-> Cardinality({e \in DOMAIN engs : engs[e].status = 1}),
              avg_temperature |-> RoundDiv(FieldSum(engs, order, "temperature"),
                                           10 * total_engines),
              avg_power |-> RoundHalfEven(FieldSum(engs, order, "power"), total_engines),
              health_distribution |-> health_counts(engs, order, <<>>)]

\* get_all_engines_data(): engine id -> to_dict() of its entry
get_all_engines_data(engs) == [e \in DOMAIN engs |-> to_dict(engs[e])]

\* a caller invokes get_all_engines_data()
GetAllEnginesData(maxReads) ==
    /\ used.reads < maxReads
    /\ DOMAIN get_all_engines_data(engines) = DOMAIN engines
    /\ used' = [used EXCEPT !.reads = @ + 1]
    /\ UNCHANGED <<summary, PYSNMP_AVAILABLE, engines, running, threads, now, reader,
                   health_done, last_update>>
    /\ UNCHANGED agentVars
    /\ scan' = ScanSees(engines')

\* a caller invokes get_engines_summary()
GetSummary ==
    /\ summary' = Some(get_engines_summary(engines))
    /\ UNCHANGED <<PYSNMP_AVAILABLE, engines, running, threads, now, reader, health_done,
                   last_update, used>>
    /\ UNCHANGED agentVars
    /\ scan' = ScanSees(engines')

\* a caller enters get_engines_summary(): total_engines = len(self.engines)
SummaryBegin(maxReads) ==
    /\ scan.k \notin 1..Len(ScanPasses)
    /\ used.reads < maxReads
    /\ ~get_engines_summary(engines).raised
    /\ scan' = [k |-> 1,
                part |-> [total_engines |-> get_engines_summary(engines).total_engines,
                          running_engines |-> 0, avg_temperature |-> 0, avg_power |-> 0,
                          health_distribution |-> <<>>],
                seen |-> {engines}]
    /\ used' = [used EXCEPT !.reads = @ + 1]
    /\ UNCHANGED <<summary, PYSNMP_AVAILABLE, engines, running, threads, now, reader,
                   health_done, last_update>>
    /\ UNCHANGED agentVars

\* the caller makes the next pass over self.engines.values() (the count of
\* the fleet does not change, so a mean over the cache as it is now is the
\* sum of this pass divided by total_engines); after the last pass the
\* dictionary is returned
SummaryPass ==
    /\ scan.k \in 1..Len(ScanPasses)
    /\ LET key == ScanPasses[scan.k]
           part == [scan.part EXCEPT ![key] = get_engines_summary(engines)[key]]
       IN  /\ scan' = [scan EXCEPT !.k = @ + 1, !.part = part]
           /\ summary' = IF scan.k = Len(ScanPasses)
                         THEN Some([raised |-> FALSE,
                                    total_engines |-> part.total_engines,
                                    running_engines |-> part.running_engines,
                                    avg_temperature |-> part.avg_temperature,
                                    avg_power |-> part.avg_power,
                                    health_distribution |-> part.health_distribution])
                         ELSE summary
    /\ UNCHANGED <<PYSNMP_AVAILABLE, engines, running, threads, now, reader, health_done,
                   last_update, used>>
    /\ UNCHANGED agentVars

\* the threads inside update_engine_data(e)
Updating(e) ==
    {tid \in Tids : threads[tid].pc = "update" /\ EngineOrder[threads[tid].i] = e}

\* a reader thread calls get_engine_data(e) while the caller may be in the
\* middle of update_engine_data(e); pre is the entry as that update found it,
\* cache the whole cache as it is when the reader runs
ReadEngine(maxReads) ==
    /\ used.reads < maxReads
    /\ \E e \in EngineIdDomain :
          reader' = Some([engine_id |-> e,
                          snap |-> get_engine_data(engines, e),
                          cache |-> engines,
                          pre |-> IF e \notin EngineIds THEN None
                                  ELSE IF Updating(e) = {} THEN Some(to_dict(engines[e]))
                                  ELSE Some(to_dict(threads[CHOOSE tid \in Updating(e) : TRUE].pre[1])),
                          done |-> Updating(e) = {},
                          post |-> IF e \notin EngineIds THEN None
                                   ELSE Some(to_dict(engines[e]))])
    /\ used' = [used EXCEPT !.reads = @ + 1]
    /\ UNCHANGED <<summary, PYSNMP_AVAILABLE, engines, running, threads, now, health_done, last_update>>
    /\ UNCHANGED agentVars
    /\ scan' = ScanSees(engines')

\* update_health_status() called on an entry whose temperature was assigned
ApplyHealth ==
    /\ \E e \in EngineIds :
          /\ engines' = [engines EXCEPT ![e] = update_health_status(@)]
          /\ health_done' = health_done \cup {e}
    /\ UNCHANGED <<summary, PYSNMP_AVAILABLE, running, threads, now, reader, last_update, used>>
    /\ UNCHANGED agentVars
    /\ scan' = ScanSees(engines')

-----------------------------------------------------------------------------
(* The manager's state after SNMPManager() *)

MgrInit ==
    /\ PYSNMP_AVAILABLE \in BOOLEAN
    /\ engines = manager_engines
    /\ running = FALSE
    /\ threads = [tid \in Tids |-> IF tid = 0 THEN ThreadIdle ELSE ThreadNone]
    /\ now = 1
    /\ reader = None
    /\ health_done = {}
    /\ last_update = [e \in EngineIds |-> None]
    /\ summary = None
    /\ scan = ScanIdle
    /\ used = [polls |-> 0, answers |-> 0, reads |-> 0]

\* temperatures of the cached entries a summary is taken of, in hundredths
SummaryTemps == {100 * (70 + 20 * k) : k \in 0..MaxSummarySteps}

\* powers and statuses of the cached entries a summary is taken of
SummaryPowers == {1450, 1619}

SummaryStatuses == {0, 1}

\* the entries of engine e a summary may find: as EngineData() made it, or as
\* an update that read temperature t, power p and status s left it
SummaryEntries(e) ==
    {manager_engines[e]}
    \cup {[update_health_status([manager_engines[e] EXCEPT !.temperature = t,
                                                           !.power = p, !.status = s])
              EXCEPT !.last_updated = Some(0)] :
            t \in SummaryTemps, p \in SummaryPowers, s \in SummaryStatuses}

\* self.engines is a plain dictionary: the caches of every subset of the
\* fleet, the empty one included
SummaryFleets ==
    UNION {{f \in [F -> UNION {SummaryEntries(e) : e \in F}] :
               \A e \in F : f[e].engine_id = e} : F \in SUBSET EngineIds}

SummaryInit ==
    /\ PYSNMP_AVAILABLE = TRUE
    /\ engines \in SummaryFleets
    /\ running = FALSE
    /\ threads = [tid \in Tids |-> IF tid = 0 THEN ThreadIdle ELSE ThreadNone]
    /\ now = 1
    /\ reader = None
    /\ health_done = {}
    /\ last_update = [e \in EngineIds |-> None]
    /\ summary = None
    /\ scan = ScanIdle
    /\ used = [polls |-> 0, answers |-> 0, reads |-> 0]

\* temperatures the classification is tried on, in hundredths
HealthTemps ==
    {100 * k : k \in 0..MaxDegrees}
    \cup {80 * 100 + k : k \in -MaxOffset..MaxOffset}
    \cup {100 * 100 + k : k \in -MaxOffset..MaxOffset}

\* an entry whose temperature has been assigned and whose update_health_status
\* has not run yet (as after engine.temperature = float(value))
HealthInit ==
    /\ PYSNMP_AVAILABLE = TRUE
    /\ \E e \in EngineIds, t \in HealthTemps :
          engines = [manager_engines EXCEPT ![e].temperature = t]
    /\ running = FALSE
    /\ threads = [tid \in Tids |-> IF tid = 0 THEN ThreadIdle ELSE ThreadNone]
    /\ now = 1
    /\ reader = None
    /\ health_done = {}
    /\ last_update = [e \in EngineIds |-> None]
    /\ summary = None
    /\ scan = ScanIdle
    /\ used = [polls |-> 0, answers |-> 0, reads |-> 0]

-----------------------------------------------------------------------------
(* Properties of the message log and of handle_snmp_request *)

\* the last n records of a sequence, in order
LastRecords(seq, n) == SubSeq(seq, Len(seq) - n + 1, Len(seq))

\* C1: with one writer, after n completed log_snmp_message calls on a device
\* its message log is the last min(n, 100) appended records in append order;
\* so its length never exceeds 100 and what is evicted is always the oldest.
C1_LogKeepsNewestHundred ==
    \A e \in EngineIds :
        /\ Len(message_log[e]) <= 100
        /\ message_log[e] = LastRecords(appended[e], Min(Len(appended[e]), 100))

\* C1, its case: a device has had more than 100 records appended, so records
\* have been evicted from a full log
C1_EvictionHappened ==
    \E e \in EngineIds : Len(appended[e]) > 100 /\ Len(message_log[e]) = 100

\* C2: handle_snmp_request with an OID of the catalog appends exactly two
\* records to that device's log, a GET_REQUEST immediately followed by a
\* GET_RESPONSE for the same OID, and returns the value the GET_RESPONSE carries.
C2_KnownOidRequestThenResponse ==
    last_call # None /\ last_call[1].oid \in CatalogOids =>
        LET c == last_call[1]
            h == appended[c.engine_id]
            log == message_log[c.engine_id]
            n == c.before
        IN  /\ Len(h) = n + 2
            /\ h[n + 1].message_type = "GET_REQUEST"
            /\ h[n + 2].message_type = "GET_RESPONSE"
            /\ h[n + 1].oid = c.oid /\ h[n + 2].oid = c.oid
            /\ h[n + 1].engine_id = c.engine_id /\ h[n + 2].engine_id = c.engine_id
            /\ c.ret # None /\ c.ret = h[n + 2].value
            /\ ~c.raised
            /\ Len(log) >= 2
            /\ LastRecords(log, 2) = <<h[n + 1], h[n + 2]>>

\* C2, its case: a request for a catalog OID has completed on a device whose
\* log already held records
C2_KnownOidServed ==
    /\ last_call # None
    /\ last_call[1].oid \in CatalogOids
    /\ last_call[1].before > 0

\* C3: handle_snmp_request with an OID outside the catalog appends exactly one
\* ERROR record and no GET_REQUEST or GET_RESPONSE record, returns None and
\* does not raise.
C3_UnknownOidOneError ==
    last_call # None /\ last_call[1].oid \notin CatalogOids =>
        LET c == last_call[1]
            h == appended[c.engine_id]
            log == message_log[c.engine_id]
            n == c.before
        IN  /\ Len(h) = n + 1
            /\ h[n + 1].message_type = "ERROR"
            /\ h[n + 1].oid = c.oid
            /\ h[n + 1].engine_id = c.engine_id
            /\ h[n + 1].error # None /\ h[n + 1].value = None
            /\ c.ret = None
            /\ ~c.raised
            /\ Len(log) >= 1
            /\ LastRecords(log, 1) = <<h[n + 1]>>

\* C3, its case: a request for an OID outside the catalog has completed on a
\* device whose log already held records
C3_UnknownOidServed ==
    /\ last_call # None
    /\ last_call[1].oid = OidUnknown
    /\ last_call[1].before > 0

\* C13: with two threads able to run simulate_snmp_queries, every GET_REQUEST
\* record of a device's log is immediately followed by the GET_RESPONSE of the
\* same call (or is the last record, its call being under way), and no record
\* is lost or duplicated.
C13_RequestThenItsResponse ==
    \A e \in EngineIds :
        /\ \A k \in 1..Len(message_log[e]) :
              message_log[e][k].message_type = "GET_REQUEST" =>
                  \/ k = Len(message_log[e])
                  \/ /\ message_log[e][k + 1].message_type = "GET_RESPONSE"
                     /\ message_log[e][k + 1].oid = message_log[e][k].oid
        /\ message_log[e] = LastRecords(appended[e], Min(Len(appended[e]), 100))

-----------------------------------------------------------------------------
(* Properties of the manager's cache *)

\* the classification by thresholds, on a temperature in hundredths
ThresholdClass(t) ==
    IF t > 100 * 100 THEN "critical"
    ELSE IF t > 80 * 100 THEN "warning"
    ELSE "normal"

\* C4: update_health_status classifies every temperature t as critical when
\* t > 100, warning when 80 < t <= 100 and normal when t <= 80; exactly 80 is
\* normal, exactly 100 is warning, and the result is never "unknown".
C4_HealthByThresholds ==
    \A e \in health_done :
        LET t == engines[e].temperature
            h == engines[e].health_status
        IN  /\ t > 10000 => h = "critical"
            /\ (8000 < t /\ t <= 10000) => h = "warning"
            /\ t <= 8000 => h = "normal"
            /\ t = 8000 => h = "normal"
            /\ t = 10000 => h = "warning"
            /\ h # "unknown"

\* C4, its case: update_health_status has run on an entry whose temperature is
\* exactly 80
C4_BoundaryClassified ==
    \E e \in health_done : engines[e].temperature = 8000

\* C5: whenever no update of an entry is in progress and its last_updated is
\* not None, its health_status is the threshold classification of its current
\* temperature.
C5_HealthMatchesTemperature ==
    \A e \in EngineIds :
        (Updating(e) = {} /\ engines[e].last_updated # None) =>
            engines[e].health_status = ThresholdClass(engines[e].temperature)

\* C6: every snapshot a concurrent reader gets of a device is the entry as it
\* was before an update of that device, or the entry as that update left it.
C6_ReaderSeesWholeEntry ==
    (reader # None /\ reader[1].done) =>
        reader[1].snap \in {reader[1].pre, reader[1].post}

\* the keys of the dictionary to_dict returns
EntryKeys ==
    {"engine_id", "port", "temperature", "rpm", "current", "power", "status",
     "uptime", "last_updated", "health_status"}

\* C15: get_engine_data(id) returns None exactly when id is not a device of
\* the fleet and the device's cache entry otherwise, in every state, also
\* before the first poll; the call changes no state.
C15_UnknownIdNotFound ==
    /\ [](reader # None =>
            LET r == reader[1]
            IN  /\ r.snap = None <=> r.engine_id \notin EngineIds
                /\ r.engine_id \in EngineIds =>
                       /\ DOMAIN r.snap[1] = EntryKeys
                       /\ \A key \in EntryKeys :
                              r.snap[1][key] = r.cache[r.engine_id][key])
    /\ [][used'.reads # used.reads =>
              UNCHANGED <<engines, running, threads, now, health_done, last_update,
                          summary, PYSNMP_AVAILABLE, agentVars>>]_vars

\* C15, its case: a reader has asked for an identifier outside the fleet
\* after a poll had filled the cache
C15_UnknownIdAsked ==
    /\ reader # None
    /\ reader[1].engine_id \notin EngineIds
    /\ reader[1].snap = None
    /\ \E e \in EngineIds : engines[e].last_updated # None

\* the six variables of an entry
Variables == {ParamOrder[k] : k \in 1..Len(ParamOrder)}

\* C7: one completed update_engine_data assigns each of the six variables a
\* value obtained in that call, real or synthetic, whatever the outcomes of
\* the queries; none keeps its value from an earlier cycle.
C7_UpdateAssignsAllSix ==
    \A e \in EngineIds :
        last_update[e] # None => last_update[e][1].assigned = Variables

\* the clamp range of a variable, in the units the entry is kept in
InClampRange(param, v) ==
    CASE param = "temperature" -> 20 * 100 <= v /\ v <= 120 * 100
      [] param = "rpm" -> 500 <= v /\ v <= 3500
      [] param = "current" -> 0 <= v /\ v <= 30 * 100
      [] param = "power" -> 0 <= v /\ v <= 3000
      [] OTHER -> TRUE

\* C8: a value stored in the cache from the fallback is within its variable's
\* clamp range: temperature in [20, 120], rpm in [500, 3500], current in
\* [0, 30], power in [0, 3000].
C8_FallbackWithinClampRange ==
    \A e \in EngineIds :
        (Updating(e) = {} /\ last_update[e] # None) =>
            \A param \in last_update[e][1].synthetic :
                InClampRange(param, engines[e][param])

\* C9: every status a device produces is 1, every status a completed update
\* stored from the fallback is 1, and after a poll of all devices that fell
\* back running_engines equals total_engines.
C9_StatusAlwaysRunning ==
    /\ get_status = 1
    /\ \A e \in EngineIds :
          (Updating(e) = {} /\ last_update[e] # None
              /\ "status" \in last_update[e][1].synthetic) =>
                 engines[e].status = 1
    /\ (\A e \in EngineIds :
           /\ Updating(e) = {}
           /\ last_update[e] # None
           /\ "status" \in last_update[e][1].synthetic) =>
          get_engines_summary(engines).running_engines
              = get_engines_summary(engines).total_engines

-----------------------------------------------------------------------------
(* Properties of the polling threads *)

\* the polling_loop threads that have been started and have not returned
ActiveLoops == {tid \in 1..MaxThreads : threads[tid].pc \notin {"none", "exited"}}

\* C10: start_polling called while the manager is already running has no
\* effect: no step taken while running is TRUE adds a polling loop.
C10_StartWhileRunningAddsNoLoop ==
    [][running => ActiveLoops' \subseteq ActiveLoops]_vars

\* the polling_loop threads between reading the flag as TRUE and the end of
\* the cycle that follows
InFlight == {tid \in 1..MaxThreads : threads[tid].pc \in {"enter", "update"}}

C14_BackoffAfterError ==
    \A tid \in 1..MaxThreads :
        threads[tid].pc = "sleep" =>
            threads[tid].delay = (IF threads[tid].erred THEN 5 ELSE 2)

\* C12: after stop_polling followed by start_polling the cycle is not
\* duplicated: a polling loop started before the restart begins no further
\* cycle, so that only the most recently started loop ever passes its test of
\* the flag and one loop remains once the cycle in flight has completed.
C12_RestartKeepsOneLoop ==
    [][\A tid \in 1..MaxThreads :
          (threads[tid].pc = "check" /\ threads'[tid].pc = "enter") =>
              \A later \in (tid + 1)..MaxThreads : threads[later].pc = "none"]_vars

\* C22: stop_polling() does not interrupt a cycle in progress: a loop inside
\* poll_all_engines goes from the update of one device to the update of the
\* next, whatever the flag, and reaches its sleep only from the update of the
\* last device; a cycle under way when the manager is stopped does get there.
C22_CycleRunsToItsEnd ==
    /\ [][\A tid \in 1..MaxLoops :
            (threads[tid].pc = "update" /\ threads'[tid] # threads[tid]) =>
                /\ last_update'[EngineOrder[threads[tid].i]] # None
                /\ IF threads[tid].i < Len(EngineOrder)
                   THEN /\ threads'[tid].pc = "update"
                        /\ threads'[tid].i = threads[tid].i + 1
                   ELSE threads'[tid].pc = "sleep"]_vars
    /\ \A tid \in 1..MaxLoops :
          (threads[tid].pc = "update" /\ ~running) ~> (threads[tid].pc = "sleep")

\* C22, its case: the manager was stopped after a loop began its cycle, and the
\* loop has gone on to the last device
C22_StoppedMidCycle ==
    \E tid \in 1..MaxLoops :
        /\ ~running
        /\ threads[tid].pc = "update"
        /\ threads[tid].i = Len(EngineOrder)
        /\ \A k \in 1..(Len(EngineOrder) - 1) : last_update[EngineOrder[k]] # None

-----------------------------------------------------------------------------
(* Properties of get_engines_summary *)

\* the sum of the counts of a distribution
RECURSIVE CountSum(_)
CountSum(counts) ==
    IF DOMAIN counts = {} THEN 0
    ELSE LET st == CHOOSE x \in DOMAIN counts : TRUE
         IN  counts[st] + CountSum([x \in DOMAIN counts \ {st} |-> counts[x]])

C17_EmptyFleetGuarded ==
    (summary # None /\ DOMAIN engines = {}) =>
        /\ ~summary[1].raised
        /\ summary[1].total_engines = 0

-----------------------------------------------------------------------------
(* Ranges of the getters *)

\* the documented range of the variable at oid (temperature in tenths,
\* current in hundredths)
InDocumentedRange(oid, v) ==
    CASE oid = OidTemperature -> 20 * 10 <= v /\ v <= 120 * 10
      [] oid = OidRpm -> 500 <= v /\ v <= 3500
      [] oid = OidCurrent -> 0 <= v /\ v <= 30 * 100
      [] oid = OidPower -> 0 <= v /\ v <= 3000
      [] oid = OidStatus -> v = 1
      [] oid = OidUptime -> v >= 0

\* C19: for every device, every elapsed time >= 0 and every draw within the
\* generators' noise bounds, a getter returns a value inside the documented
\* range of its variable: temperature in [20, 120], rpm in [500, 3500],
\* current in [0, 30], power in [0, 3000], status 1, uptime >= 0.
C19_GettersWithinRanges ==
    (last_call # None /\ last_call[1].ret # None) =>
        InDocumentedRange(last_call[1].oid, last_call[1].ret[1])

\* C19, its case: a getter whose clamp is at work has returned, here get_power
\* at the upper end of its range
C19_ClampAtWork ==
    /\ last_call # None
    /\ last_call[1].oid = OidPower
    /\ last_call[1].device.base_power * 3500 > 3000 * 3000
    /\ last_call[1].ret = Some(3000)

-----------------------------------------------------------------------------
(* The catalog and the getters of an agent of the fleet *)

\* C23: a device's catalog is read-only after construction: whatever has been
\* done (handle_snmp_request with known or unknown OIDs, log_snmp_message, the
\* getters, simulate_snmp_queries, get_mib_info, get_mib_definitions), no entry
\* was added, removed or altered, and mib_definitions holds exactly the six
\* distinct OIDs 1.3.6.1.4.1.9999.1.1.1.0 to 1.3.6.1.4.1.9999.1.1.6.0.
C23_CatalogReadOnly ==
    \A e \in EngineIds :
        /\ catalog[e] = mib_definitions
        /\ DOMAIN catalog[e] = {"1.3.6.1.4.1.9999.1.1.1.0", "1.3.6.1.4.1.9999.1.1.2.0",
                                "1.3.6.1.4.1.9999.1.1.3.0", "1.3.6.1.4.1.9999.1.1.4.0",
                                "1.3.6.1.4.1.9999.1.1.5.0", "1.3.6.1.4.1.9999.1.1.6.0"}
        /\ Cardinality(DOMAIN catalog[e]) = 6

\* C23, its case: an unknown OID was asked for, a cycle has run, a getter was
\* called and the catalog was read
C23_EveryOperationUsed ==
    /\ budget.direct > 0
    /\ budget.cycles > 0
    /\ budget.getters > 0
    /\ budget.reads > 0
    /\ SimAllIdle
    /\ \E e \in EngineIds : \E k \in 1..Len(message_log[e]) :
          message_log[e][k].message_type = "ERROR"

\* C24: calling a getter directly has no side effect: it leaves the device's
\* message log and every other field of the device, cycle_time included,
\* unchanged.
C24_GetterLeavesDeviceUnchanged ==
    [][budget'.getters # budget.getters =>
          UNCHANGED <<message_log, cycle_time, catalog, AGENT_DATA>>]_vars

-----------------------------------------------------------------------------
(* last_updated *)

\* C21: for every device of the cache, last_updated is None as long as no
\* update_engine_data of that device has completed without an exception; the
\* update that so completes sets it, and nothing sets it back to None: it
\* changes only in the step that completes such an update, and to a time.
C21_StampOnlyBySuccess ==
    /\ [](\A e \in EngineIds :
             (last_update[e] # None /\ ~last_update[e][1].raised) =>
                 engines[e].last_updated # None)
    /\ [][\A e \in EngineIds :
             engines'[e].last_updated # engines[e].last_updated =>
                 /\ engines'[e].last_updated # None
                 /\ last_update'[e] # None
                 /\ ~last_update'[e][1].raised]_vars

\* C21, its case: an update of a device failed after an earlier one had
\* succeeded
C21_FailedAfterSuccess ==
    \E e \in EngineIds :
        /\ engines[e].last_updated # None
        /\ last_update[e] # None
        /\ last_update[e][1].raised

\* C25: when update_engine_data of a device returns, also after an exception
\* raised partway, the entry is either the snapshot the call found or a fully
\* refreshed one (no exception, health_status of the new temperature, a new
\* last_updated); it never combines fields of a failed call with health_status,
\* last_updated and remaining fields of an earlier one.
C25_UpdateAllOrNothing ==
    [][\A e \in EngineIds :
          (/\ threads[0].pc = "update"
           /\ EngineOrder[threads[0].i] = e
           /\ (threads'[0].pc # "update" \/ threads'[0].i # threads[0].i)) =>
              \/ engines'[e] = threads[0].pre[1]
              \/ /\ ~last_update'[e][1].raised
                 /\ engines'[e].last_updated = Some(now)
                 /\ engines'[e].health_status = ThresholdClass(engines'[e].temperature)]_vars

\* C26: an exception raised while one device is updated does not keep the
\* other devices from being polled in the same cycle: whatever the queries
\* return, a call of poll_all_engines goes from the update of each device,
\* failed or not, to the update of the next, and returns normally after the
\* update of the third.
C26_FailureKeepsFleetPolled ==
    [][(/\ threads[0].pc = "update"
        /\ (threads'[0].pc # "update" \/ threads'[0].i # threads[0].i)) =>
           /\ last_update'[EngineOrder[threads[0].i]] # None
           /\ IF threads[0].i < Len(EngineOrder)
              THEN /\ threads'[0].pc = "update"
                   /\ threads'[0].i = threads[0].i + 1
              ELSE /\ threads'[0].pc = "idle"
                   /\ \A e \in EngineIds : last_update'[e] # None]_vars

\* C26, its case: the first call of poll_all_engines has returned, the update
\* of the first device having raised
C26_PolledPastFailure ==
    /\ used.polls = 1
    /\ threads[0].pc = "idle"
    /\ last_update[EngineOrder[1]] # None
    /\ last_update[EngineOrder[1]][1].raised
    /\ \A k \in 2..Len(EngineOrder) : last_update[EngineOrder[k]] # None

\* C27: request/response pairs are never split in a device's log: whenever no
\* handle_snmp_request call of the single writer is under way, every
\* GET_RESPONSE record in a device's log is immediately preceded by the
\* GET_REQUEST record of the same OID, also after unknown OIDs were asked
\* for and after the log has reached its 100 records.
C27_ResponseFollowsItsRequest ==
    sim[1].phase # "response" =>
        \A e \in EngineIds : \A k \in 1..Len(message_log[e]) :
            message_log[e][k].message_type = "GET_RESPONSE" =>
                /\ k > 1
                /\ message_log[e][k - 1].message_type = "GET_REQUEST"
                /\ message_log[e][k - 1].oid = message_log[e][k].oid

\* the number of records the cycles of writer 1 have appended for engine e so
\* far, at twelve records for each cycle that is through with the engine
CycleRecords(e) ==
    LET k == CHOOSE n \in 1..Len(EngineOrder) : EngineOrder[n] = e
        s == sim[1]
    IN  IF s.phase = "idle" \/ k < s.i THEN 12 * budget.cycles
        ELSE IF k > s.i THEN 12 * (budget.cycles - 1)
        ELSE 12 * (budget.cycles - 1) + 2 * (s.j - 1)
                + (IF s.phase = "response" THEN 1 ELSE IF s.phase = "update" THEN 2 ELSE 0)

\* the records of a sequence that are no ERROR records
Exchanges(recs) ==
    LET IsExchange(r) == r.message_type # "ERROR"
    IN  SelectSeq(recs, IsExchange)

\* C28: one simulate_snmp_queries cycle calls handle_snmp_request once for
\* each catalog OID of each device: the records ever appended for a device
\* are, for each cycle, the GET_REQUEST and the GET_RESPONSE of temperature,
\* rpm, current, power, status and uptime in this order and nothing else,
\* next to the ERROR records of the requests made outside the cycles, which
\* are for an unknown OID.
C28_CycleLogsSixPairsInOrder ==
    \A e \in EngineIds :
        LET x == Exchanges(appended[e])
            order == <<OidTemperature, OidRpm, OidCurrent, OidPower, OidStatus, OidUptime>>
        IN  /\ Len(x) = CycleRecords(e)
            /\ Len(appended[e]) - Len(x) <= budget.direct
            /\ \A r \in 1..Len(x) :
                  /\ x[r].oid = order[(((r - 1) % 12) \div 2) + 1]
                  /\ x[r].message_type =
                        (IF (r - 1) % 2 = 0 THEN "GET_REQUEST" ELSE "GET_RESPONSE")
            /\ \A r \in 1..Len(appended[e]) :
                  appended[e][r].message_type = "ERROR" =>
                      appended[e][r].oid \notin CatalogOids

\* C28, its case: two cycles are over, a request for an unknown OID was made
\* in between, and every device holds the records of both cycles
C28_TwoCyclesLogged ==
    /\ sim[1].phase = "idle"
    /\ budget.cycles = 2
    /\ budget.direct = 1
    /\ \E e \in EngineIds :
          /\ Len(appended[e]) = 25
          /\ appended[e][13].message_type = "ERROR"

\* the value of the newest GET_RESPONSE record appended for OID oid of engine e
LastResponse(e, oid) ==
    LET at == {k \in 1..Len(appended[e]) :
                  /\ appended[e][k].message_type = "GET_RESPONSE"
                  /\ appended[e][k].oid = oid}
        last == CHOOSE k \in at : \A m \in at : m <= k
    IN  appended[e][last].value

\* C29: after a completed simulate_snmp_queries cycle the temperature, rpm,
\* current and power stored for a device in AGENT_DATA are the values the
\* cycle obtained through handle_snmp_request, those of the cycle's
\* GET_RESPONSE records for the OIDs of the device.
C29_StoredValuesAreLoggedValues ==
    (sim[1].phase = "idle" /\ budget.cycles >= 1) =>
        \A e \in EngineIds :
            /\ Some(AGENT_DATA[e].temperature) = LastResponse(e, OidTemperature)
            /\ Some(AGENT_DATA[e].rpm) = LastResponse(e, OidRpm)
            /\ Some(AGENT_DATA[e].current) = LastResponse(e, OidCurrent)
            /\ Some(AGENT_DATA[e].power) = LastResponse(e, OidPower)

\* C30: in AGENT_DATA, after creation and after every completed
\* simulate_snmp_queries cycle, the health_status of each entry is the
\* classification of the entry's temperature by the thresholds (normal,
\* warning or critical), and always one of normal, warning, critical, unknown.
C30_AgentDataHealthByThresholds ==
    sim[1].phase = "idle" =>
        \A e \in EngineIds :
            /\ AGENT_DATA[e].health_status \in {"normal", "warning", "critical", "unknown"}
            /\ AGENT_DATA[e].health_status = ThresholdClass(10 * AGENT_DATA[e].temperature)

\* C31: devices are independent: update_engine_data(d) changes no cache entry
\* but the one of d, handle_snmp_request on device d changes no message log
\* but the one of d, and the device identifiers Engine-1, Engine-2, Engine-3
\* and their ports 1611, 1612, 1613 stay as they are.
C31_DevicesIndependent ==
    [][/\ DOMAIN engines' = {"Engine-1", "Engine-2", "Engine-3"}
       /\ DOMAIN message_log' = {"Engine-1", "Engine-2", "Engine-3"}
       /\ \A e \in EngineIds :
             /\ engines'[e].engine_id = e
             /\ engines'[e].port = 1610 + (CHOOSE k \in 1..3 : EngineOrder[k] = e)
             /\ engines'[e] # engines[e] =>
                   /\ threads[0].pc = "update"
                   /\ EngineOrder[threads[0].i] = e
             /\ message_log'[e] # message_log[e] =>
                   /\ last_call' # last_call
                   /\ last_call'[1].engine_id = e]_vars

\* C31, its case: Engine-1 was updated and Engine-2 was asked, and the entries
\* and logs of the other devices are as they were made
C31_OneDeviceTouched ==
    /\ threads[0].pc = "update"
    /\ threads[0].i = 2
    /\ threads[0].j = 1
    /\ engines["Engine-1"] # manager_engines["Engine-1"]
    /\ engines["Engine-2"] = manager_engines["Engine-2"]
    /\ engines["Engine-3"] = manager_engines["Engine-3"]
    /\ Len(message_log["Engine-2"]) = 2
    /\ message_log["Engine-1"] = <<>>
    /\ message_log["Engine-3"] = <<>>

\* the calls of query_snmp_agent the update_engine_data that thread tid is
\* in has made once its next step is taken: one for each parameter of the
\* loop up to the one at hand
QueriesMade(tid) == Min(threads[tid].j, Len(ParamOrder))

\* C32: in one poll_all_engines cycle the manager makes exactly one query
\* attempt for each OID of each device, 18 for the fleet, none of them
\* repeated, whatever the queries return: a query is followed by the query
\* of the next parameter, and update_engine_data returns to poll_all_engines
\* with the six queries of its device made.
C32_SixQueriesForEachDevice ==
    [][(threads[0].pc = "update" /\ threads'[0] # threads[0]) =>
          IF threads'[0].pc = "update" /\ threads'[0].i = threads[0].i
          THEN threads'[0].j = threads[0].j + 1
          ELSE QueriesMade(0) = Len(ParamOrder)]_vars

\* C33: the power a device reports in a cycle is derived from the rpm and
\* the current of the same cycle: after a completed cycle the value of the
\* GET_RESPONSE record of the power OID is
\* clamp(int(base_power * (rpm / 3000) * (current / 20)), 0, 3000) for the
\* values of the GET_RESPONSE records of the rpm and the current OID.
C33_PowerFromRecordedReadings ==
    (sim[1].phase = "idle" /\ budget.cycles >= 1) =>
        \A e \in EngineIds :
            LastResponse(e, OidPower) =
                Some(get_power(e, LastResponse(e, OidRpm)[1],
                                  LastResponse(e, OidCurrent)[1]))

\* C34: get_engines_summary() running while the cache is polled returns the
\* summary of one state of the cache: running_engines, avg_temperature,
\* avg_power and health_distribution are those of one and the same state the
\* three entries were in during the call.
C34_SummaryOfOneSnapshot ==
    (scan.k > Len(ScanPasses) /\ summary # None) =>
        \E cache \in scan.seen : summary[1] = get_engines_summary(cache)

\* C35: a reader of a device's message log, to whom get_message_log and
\* get_agent_message_logs hand the log while a writer may be inside
\* log_snmp_message, never finds more than 100 records in it, between the
\* append and the eviction either.
C35_ReaderSeesAtMostHundred ==
    [][budget'.reads # budget.reads =>
          \A e \in EngineIds :
              Len(get_agent_message_logs(message_log)[e]) <= 100]_vars

\* C36: avg_temperature and avg_power of get_engines_summary() are the
\* arithmetic means of the cached temperatures and powers over all devices of
\* the fleet, rounded to one decimal and to a whole number (90.0 for cached
\* temperatures 70, 90 and 110), and running_engines is the number of entries
\* whose status is 1, at most total_engines.  The cache holds temperatures in
\* hundredths, the summary its mean in tenths.
C36_MeansOverTheFleet ==
    (summary # None /\ ~summary[1].raised) =>
        LET s == summary[1]
            n == Cardinality(DOMAIN engines)
            temperatures == FieldSum(engines, FleetOrder(engines), "temperature")
            powers == FieldSum(engines, FleetOrder(engines), "power")
            Distance(a, b) == IF a > b THEN a - b ELSE b - a
        IN  /\ s.total_engines = n
            /\ 2 * Distance(10 * n * s.avg_temperature, temperatures) <= 10 * n
            /\ 2 * Distance(n * s.avg_power, powers) <= n
            /\ s.running_engines = Cardinality({e \in DOMAIN engines : engines[e].status = 1})
            /\ s.running_engines <= s.total_engines
            /\ (n = 3 /\ \E e1, e2, e3 \in DOMAIN engines :
                            /\ engines[e1].temperature = 70 * 100
                            /\ engines[e2].temperature = 90 * 100
                            /\ engines[e3].temperature = 110 * 100)
                  => s.avg_temperature = 900

\* C36, its case: a summary was taken of devices at 70, 90 and 110 degrees,
\* two of them running, and of powers whose mean lies between whole numbers
C36_MeansTaken ==
    /\ summary # None
    /\ ~summary[1].raised
    /\ summary[1].total_engines = 3
    /\ summary[1].running_engines = 2
    /\ summary[1].avg_temperature = 900
    /\ summary[1].avg_power = 1506
    /\ {engines[e].temperature : e \in DOMAIN engines} = {70 * 100, 90 * 100, 110 * 100}

-----------------------------------------------------------------------------
(* Frame of the read operations *)

\* a step of one of the read operations: a read handler of the agents, a read
\* of the manager's cache, or a summary
ReadStep ==
    \/ budget'.reads # budget.reads
    \/ used'.reads # used.reads
    \/ summary' # summary

\* C18: read operations never write: get_all_engines_data, get_engine_data,
\* get_engines_summary, get_agent_message_logs, get_mib_definitions and the
\* HTTP read handlers, GET /api/engines/enhanced included, leave every entry
\* of SNMPManager.engines and AGENT_DATA (each last_updated in particular) and
\* every message log unchanged.
C18_ReadsNeverWrite ==
    [][ReadStep => UNCHANGED <<engines, AGENT_DATA, message_log>>]_vars

-----------------------------------------------------------------------------
(* Specifications *)

\* one caller of poll_all_engines, every outcome of every query
Init == AgentInit /\ MgrInit

\* the same with the library present, for the runs that make no query
InitAgents == AgentInit /\ MgrInit /\ PYSNMP_AVAILABLE

Next ==
    \/ PollAllEngines(MaxPolls)
    \/ QueryStep(0, MaxAnswers)
    \/ HealthStep(0)
    \/ StampStep(0)

Spec == Init /\ [][Next]_vars

\* one caller of poll_all_engines, at most one query of a run answered
StampNext ==
    \/ PollAllEngines(MaxStampPolls)
    \/ QueryStep(0, MaxStampAnswers)
    \/ HealthStep(0)
    \/ StampStep(0)

SpecStamp == Init /\ [][StampNext]_vars

\* the caller of poll_all_engines and a reader beside it
ReadNext ==
    \/ PollAllEngines(MaxReadPolls)
    \/ QueryStep(0, MaxReadAnswers)
    \/ HealthStep(0)
    \/ StampStep(0)
    \/ ReadEngine(MaxReads)

SpecRead == Init /\ [][ReadNext]_vars

\* start_polling and stop_polling, and the polling_loop threads they drive
ThreadsNext ==
    \/ StartPolling(MaxThreads)
    \/ StopPolling
    \/ \E tid \in 1..MaxThreads :
          \/ LoopCheck(tid, MaxThreadPolls)
          \/ LoopEnter(tid)
          \/ UpdateEngine(tid, MaxThreadAnswers)
          \/ LoopWake(tid)

SpecThreads == Init /\ [][ThreadsNext]_vars

\* the same threads where pysnmp is not installed (every query falls back),
\* each of them scheduled again and again: a thread that can take a step of
\* polling_loop eventually takes it, and a call of update_engine_data
\* eventually returns
InitFallback == AgentInit /\ MgrInit /\ ~PYSNMP_AVAILABLE

LoopNext ==
    \/ StartPolling(MaxLoops)
    \/ StopPolling
    \/ \E tid \in 1..MaxLoops :
          \/ LoopCheck(tid, MaxLoopPolls)
          \/ LoopEnter(tid)
          \/ UpdateEngine(tid, MaxThreadAnswers)
          \/ LoopWake(tid)

LoopFair ==
    \A tid \in 1..MaxLoops :
        /\ WF_vars(LoopCheck(tid, MaxLoopPolls))
        /\ WF_vars(LoopEnter(tid))
        /\ WF_threads(UpdateReturns(tid))
        /\ WF_vars(LoopWake(tid))

SpecLoop == InitFallback /\ [][LoopNext]_vars /\ LoopFair

\* the same threads, start_polling being called only on a stopped manager
RestartNext ==
    \/ RestartPolling(MaxThreads)
    \/ StopPolling
    \/ \E tid \in 1..MaxThreads :
          \/ LoopCheck(tid, MaxThreadPolls)
          \/ LoopEnter(tid)
          \/ UpdateEngine(tid, MaxThreadAnswers)
          \/ LoopWake(tid)

SpecRestart == Init /\ [][RestartNext]_vars

\* the polling_loop threads with agents whose replies may fail to parse
BackoffNext ==
    \/ StartPolling(MaxLoops)
    \/ StopPolling
    \/ \E tid \in 1..MaxLoops :
          \/ LoopCheck(tid, MaxLoopPolls)
          \/ LoopEnter(tid)
          \/ UpdateEngine(tid, MaxBackoffAnswers)
          \/ LoopWake(tid)

SpecBackoff == Init /\ [][BackoffNext]_vars

\* update_health_status on every temperature of HealthTemps
HealthStart == AgentInit /\ HealthInit

HealthNext == ApplyHealth

SpecHealth == HealthStart /\ [][HealthNext]_vars

\* get_engines_summary on every cache of SummaryFleets
SummaryStart == AgentInit /\ SummaryInit

SummaryNext == GetSummary

SpecSummary == SummaryStart /\ [][SummaryNext]_vars

\* the state AgentInit describes, the last call being cell
GetterInit(cell) ==
    /\ message_log = [e \in EngineIds |-> <<>>]
    /\ appended = [e \in EngineIds |-> <<>>]
    /\ cycle_time = [e \in EngineIds |-> 0]
    /\ clock = 1
    /\ AGENT_DATA \in [EngineIds -> UNION {{agent_data_created(e, v) :
                            v \in agent_data_values(e, 0, Nominal, Nominal)} : e \in EngineIds}]
    /\ \A e \in EngineIds : AGENT_DATA[e].engine_id = e
    /\ last_call = Some(cell)
    /\ sim = [w \in Writers |-> SimIdle]
    /\ catalog = [e \in EngineIds |-> mib_definitions]
    /\ budget = [calls |-> 0, cycles |-> 0, direct |-> 0, reads |-> 0, getters |-> 0]

\* every getter of every device of GetterDevices, called once
GettersStart ==
    /\ \E c \in GetterCalls : GetterInit(c)
    /\ MgrInit
    /\ PYSNMP_AVAILABLE

GettersNext == ApplyGetter

SpecGetters == GettersStart /\ [][GettersNext]_vars

\* get_power twice on one agent
PowerStart ==
    /\ \E b \in PowerBases : GetterInit([base_power |-> b, evals |-> <<>>])
    /\ MgrInit
    /\ PYSNMP_AVAILABLE

PowerNext == ApplyPower

SpecPower == PowerStart /\ [][PowerNext]_vars

\* the operations on the agents: one simulate_snmp_queries cycle, requests
\* for an unknown OID, direct calls of the getters, reads of the catalog
DeviceNext ==
    \/ SimBeginWithin(1, MaxHandlerCycles)
    \/ SimLogRequest(1, Nominal, Nominal)
    \/ SimLogResponse(1)
    \/ SimUpdateData(1, Nominal, Nominal)
    \/ DirectUnknown
    \/ CallGetterBetween(MaxGetterCalls)
    \/ GetMibInfoBetween(MaxHandlerReads)
    \/ GetMibDefinitionsBetween(MaxHandlerReads)

SpecDevice == InitAgents /\ [][DeviceNext]_vars

\* one simulate_snmp_queries cycle and the read operations beside it
HandlersNext ==
    \/ SimBeginWithin(1, MaxHandlerCycles)
    \/ SimLogRequest(1, Nominal, Nominal)
    \/ SimLogResponse(1)
    \/ SimUpdateData(1, Nominal, Nominal)
    \/ GetAgentMessageLogs(MaxHandlerReads)
    \/ GetMibDefinitions(MaxHandlerReads)
    \/ GetEnhancedEnginesData(MaxHandlerReads)
    \/ GetAllEnginesData(MaxReads)
    \/ ReadEngine(MaxReads)
    \/ GetSummary

SpecHandlers == InitAgents /\ [][HandlersNext]_vars

\* the sine terms the getters of the device at position i of the fleet can
\* see: both extremes for the first device, the mean for the others
DrawnSin(i) == IF i = 1 THEN SinSamples ELSE Nominal

\* agent.handle_snmp_request(oid) of the loop, with the getter evaluated on
\* the sine terms of its moment
SimLogRequestDrawn(w) == SimLogRequest(w, DrawnSin(sim[w].i), Nominal)

\* AGENT_DATA[engine_id].update({...}), every getter called again on the sine
\* terms of its moment
SimUpdateDataDrawn(w) == SimUpdateData(w, DrawnSin(sim[w].i), Nominal)

\* one writer, simulate_snmp_queries with the getters moving between calls
DrawnNext ==
    \/ SimBeginWithin(1, MaxHandlerCycles)
    \/ SimLogRequestDrawn(1)
    \/ SimLogResponse(1)
    \/ SimUpdateDataDrawn(1)

SpecDrawn == InitAgents /\ [][DrawnNext]_vars

\* the OIDs the agents of a polled fleet are asked for: one of the catalog,
\* one outside it
FleetOids == {OidTemperature, OidUnknown}

\* a caller asks an agent for an OID while the manager may be polling
FleetRequest ==
    /\ budget.calls < MaxFleetCalls
    /\ \E e \in EngineIds, oid \in FleetOids : CallHandleRequest(e, oid, Nominal, Nominal)
    /\ budget' = [budget EXCEPT !.calls = @ + 1]
    /\ UNCHANGED <<AGENT_DATA, sim>>
    /\ UNCHANGED mgrVars

\* the manager polls its three entries while callers ask the three agents
FleetNext ==
    \/ PollAllEngines(MaxFleetPolls)
    \/ QueryStep(0, MaxFleetAnswers)
    \/ HealthStep(0)
    \/ StampStep(0)
    \/ FleetRequest

SpecFleet == Init /\ [][FleetNext]_vars

\* a caller of get_engines_summary and a caller of poll_all_engines at once
ScanNext ==
    \/ PollAllEngines(MaxScanPolls)
    \/ QueryStep(0, MaxScanAnswers)
    \/ HealthStep(0)
    \/ StampStep(0)
    \/ SummaryBegin(MaxReads)
    \/ SummaryPass

SpecScan == InitAgents /\ [][ScanNext]_vars

\* one writer in simulate_snmp_queries, log_snmp_message taken statement by
\* statement, and a reader of the logs at any moment
WindowNext ==
    \/ SimBegin(1)
    \/ SimAppendRequest(1)
    \/ SimAppendResponse(1)
    \/ SimEvict(1)
    \/ SimUpdateData(1, Nominal, Nominal)
    \/ GetAgentMessageLogs(MaxReads)

SpecWindow == InitAgents /\ [][WindowNext]_vars

\* callers of handle_snmp_request, every generator outcome of the samples
AgentNext == HandleRequest

SpecAgent == InitAgents /\ [][AgentNext]_vars

\* one writer: simulate_snmp_queries cycles and, between them, direct requests
LogNext ==
    \/ SimBegin(1)
    \/ SimLogRequest(1, Nominal, Nominal)
    \/ SimLogResponse(1)
    \/ SimUpdateData(1, Nominal, Nominal)
    \/ DirectUnknown

SpecLog == InitAgents /\ [][LogNext]_vars

\* two threads in simulate_snmp_queries at once: the background simulation and
\* the handler of GET /api/snmp/simulate
SimulateNext ==
    \E w \in Writers :
        \/ SimBegin(w)
        \/ SimLogRequestUntil(w, MaxSimClock)
        \/ SimLogResponse(w)
        \/ SimUpdateData(w, Nominal, Nominal)

SpecSimulate == InitAgents /\ [][SimulateNext]_vars

=============================================================================
